---- MODULE Spec2Model ----
(***************************************************************************)
(* Solid-of-revolution visualizer (src/app.js): formula compilation        *)
(* (preprocessInput), evaluation (safeEval), piecewise envelopes           *)
(* (evaluatePiecewise), the update handler (updateSolid, createDisks,      *)
(* updateMeasurements) and the event handlers that call it.                *)
(*                                                                         *)
(* Numbers.  A JavaScript number is modelled as a fixed-point integer      *)
(* counting millionths (1.0 is SCALE), finite up to MaxFinite, together    *)
(* with the three non-finite values NaN, PosInf and NegInf.  A finite      *)
(* result beyond MaxFinite overflows to an infinity, as a double does      *)
(* beyond Number.MAX_VALUE; results are rounded to the nearest unit.       *)
(* The values a formula can produce that are not numbers (undefined, the   *)
(* Math object, a function) and a thrown exception are further codes of    *)
(* the same integer encoding, see "Values of the evaluator".               *)
(***************************************************************************)
EXTENDS Integers, Sequences, FiniteSets, TLC

\* apply(f, args) is the call f(...args) of a function of the program or of
\* an operation of the host; invoke, defined after them, lists the functions.
RECURSIVE invoke(_, _)
apply(f, args) == invoke(f, args)

SCALE == 1000000
MaxFinite == 1000000000
PosInf == 1500000000
NegInf == -1500000000
NaN == 2000000000

isFinite(v) == v >= -MaxFinite /\ v <= MaxFinite
isNaN(v) == v = NaN

Abs(v) == IF v < 0 THEN -v ELSE v
Sign(v) == IF v < 0 THEN -1 ELSE IF v > 0 THEN 1 ELSE 0
Min2(a, b) == IF a <= b THEN a ELSE b
Max2(a, b) == IF a >= b THEN a ELSE b

\* A finite result, or the infinity it overflows to.
Fix(v) == IF v > MaxFinite THEN PosInf ELSE IF v < -MaxFinite THEN NegInf ELSE v

\* Product of two finite magnitudes, rounded to the nearest unit; operands
\* are split in thousands so that no intermediate exceeds 32 bits.
MulMag(a, b) ==
    LET a1 == a \div 1000
        a0 == a % 1000
        b1 == b \div 1000
        b0 == b % 1000
    IN  IF a1 # 0 /\ b1 > MaxFinite \div a1
        THEN PosInf
        ELSE Fix(a1 * b1 + ((a1 * b0 + a0 * b1 + ((a0 * b0 + 500000) \div 1000)) \div 1000))

\* Quotient of two finite magnitudes (b > 0) by long division, one decimal
\* digit of the fraction at a time.
RECURSIVE DivDigits(_, _, _, _)
DivDigits(r, b, q, k) ==
    IF k = 0 THEN (IF 2 * r >= b THEN q + 1 ELSE q)
    ELSE DivDigits((r * 10) % b, b, q * 10 + ((r * 10) \div b), k - 1)

DivMag(a, b) ==
    IF b % SCALE = 0
    THEN \* an integer divisor: one rounded integer division
         Fix((2 * a + (b \div SCALE)) \div (2 * (b \div SCALE)))
    ELSE
    LET big == b > 200000000
        aa == IF big THEN a \div 10 ELSE a
        bb == IF big THEN b \div 10 ELSE b
        q0 == aa \div bb
    IN  IF q0 > MaxFinite \div SCALE THEN PosInf
        ELSE Fix(DivDigits(aa % bb, bb, q0, 6))

\* JavaScript + on numbers.
Add(a, b) ==
    IF a = NaN \/ b = NaN THEN NaN
    ELSE IF a = PosInf THEN (IF b = NegInf THEN NaN ELSE PosInf)
    ELSE IF a = NegInf THEN (IF b = PosInf THEN NaN ELSE NegInf)
    ELSE IF b = PosInf \/ b = NegInf THEN b
    ELSE Fix(a + b)

\* JavaScript unary - on numbers.
Neg(a) == IF a = NaN THEN NaN ELSE -a

\* JavaScript binary - on numbers.
Sub(a, b) == Add(a, Neg(b))

\* JavaScript * on numbers.
Mul(a, b) ==
    IF a = NaN \/ b = NaN THEN NaN
    ELSE IF ~isFinite(a) \/ ~isFinite(b)
         THEN (IF a = 0 \/ b = 0 THEN NaN
               ELSE IF Sign(a) * Sign(b) > 0 THEN PosInf ELSE NegInf)
    ELSE LET m == MulMag(Abs(a), Abs(b))
         IN  IF Sign(a) * Sign(b) < 0 THEN -m ELSE m

\* JavaScript / on numbers.
Div(a, b) ==
    IF a = NaN \/ b = NaN THEN NaN
    ELSE IF ~isFinite(a)
         THEN (IF ~isFinite(b) THEN NaN
               ELSE IF Sign(a) * (IF b < 0 THEN -1 ELSE 1) > 0 THEN PosInf ELSE NegInf)
    ELSE IF ~isFinite(b) THEN 0
    ELSE IF b = 0
         THEN (IF a = 0 THEN NaN ELSE IF a > 0 THEN PosInf ELSE NegInf)
    ELSE LET m == DivMag(Abs(a), Abs(b))
         IN  IF Sign(a) * Sign(b) < 0 THEN -m ELSE m

\* The arithmetic operators as the formulas and the program write them.
a \oplus b == Add(a, b)
a \ominus b == Sub(a, b)
a \otimes b == Mul(a, b)
a \oslash b == Div(a, b)

\* Math[name](v)
Math(name, v) == apply(name, <<v>>)

\* The number of a JavaScript integer n (a loop index, a count).
Num(n) == n * SCALE

\* JavaScript comparisons: every comparison with NaN is false.
Lt(a, b) == a # NaN /\ b # NaN /\ a < b
Le(a, b) == a # NaN /\ b # NaN /\ a <= b
Gt(a, b) == a # NaN /\ b # NaN /\ a > b
Ge(a, b) == a # NaN /\ b # NaN /\ a >= b

(***************************************************************************)
(* The host's Math object: the constants and functions the formulas reach. *)
(* Each is computed in fixed point to about one unit (1e-6).               *)
(***************************************************************************)
PI == 3141593
E == 2718282
LN2 == 693147
LN10 == 2302585
HalfPI == 1570796
TwoPI == 6283185

\* Floor of the integer square root, by Newton's iteration from above.
RECURSIVE Newton(_, _)
Newton(n, r) ==
    LET r2 == (r + n \div r) \div 2
    IN  IF r2 >= r THEN r ELSE Newton(n, r2)

ISqrt(n) ==
    IF n = 0 THEN 0
    ELSE Newton(n, IF n < 100 THEN 10
                   ELSE IF n < 10000 THEN 100
                   ELSE IF n < 1000000 THEN 1000
                   ELSE IF n < 100000000 THEN 10000
                   ELSE 46340)

\* Math.sqrt
MathSqrt(v) ==
    IF v = NaN \/ v < 0 THEN NaN
    ELSE IF v = PosInf THEN PosInf
    ELSE IF v <= 2147 THEN ISqrt(v * 1000000)
    ELSE IF v <= 214748
         THEN LET s == ISqrt(v * 10000)
              IN  s * 10 + ((v * 10000 - s * s) * 10) \div (2 * s)
    ELSE LET s == ISqrt(v)
         IN  s * 1000 + ((v - s * s) * 1000) \div (2 * s)

\* Math.abs
MathAbs(v) == IF v = NaN THEN NaN ELSE Abs(v)

\* a / n for a positive integer n, rounded to the nearest unit.
DivInt(a, n) == IF a < 0 THEN -((n \div 2 - a) \div n) ELSE (a + n \div 2) \div n

\* Math.log (natural logarithm)
RECURSIVE LnNorm(_, _)
LnNorm(m, k) ==
    IF m >= 2 * SCALE THEN LnNorm(m \div 2, k + 1)
    ELSE IF m < SCALE THEN LnNorm(m * 2, k - 1)
    ELSE <<m, k>>

RECURSIVE AtanhSeries(_, _, _, _)
AtanhSeries(p, w, n, k) ==
    IF k = 0 \/ p = 0 THEN 0
    ELSE DivInt(p, n) + AtanhSeries((p \otimes w), w, n + 2, k - 1)

MathLog(v) ==
    IF v = NaN \/ v < 0 THEN NaN
    ELSE IF v = 0 THEN NegInf
    ELSE IF v = PosInf THEN PosInf
    ELSE LET mk == LnNorm(v, 0)
             z == ((mk[1] - SCALE) \oslash (mk[1] + SCALE))
         IN  2 * AtanhSeries(z, (z \otimes z), 1, 8) + mk[2] * LN2

\* Math.log10
MathLog10(v) ==
    LET inBase10(l) == IF isFinite(l) THEN (l \oslash LN10) ELSE l
    IN  inBase10(Math("log", v))

\* Math.exp
RECURSIVE ExpSeries(_, _, _, _)
ExpSeries(t, r, n, k) ==
    IF k = 0 \/ t = 0 THEN 0
    ELSE t + ExpSeries(DivInt((t \otimes r), n), r, n + 1, k - 1)

RECURSIVE Scale2(_, _)
Scale2(v, k) ==
    IF k = 0 \/ ~isFinite(v) THEN v
    ELSE IF k > 0 THEN Scale2(Fix(v * 2), k - 1)
    ELSE Scale2((v + 1) \div 2, k + 1)

MathExp(v) ==
    IF v = NaN THEN NaN
    ELSE IF v > 7 * SCALE THEN PosInf
    ELSE IF v < -15 * SCALE THEN 0
    ELSE LET k == (v + LN2 \div 2) \div LN2
             r == v - k * LN2
         IN  Scale2(ExpSeries(SCALE, r, 1, 12), k)

\* Math.sin, Math.cos, Math.tan
RECURSIVE SinSeries(_, _, _, _)
SinSeries(t, w, n, k) ==
    IF k = 0 \/ t = 0 THEN 0
    ELSE t + SinSeries(-DivInt((t \otimes w), n * (n + 1)), w, n + 2, k - 1)

SinReduced(r) ==
    LET q == IF r > HalfPI THEN PI - r ELSE IF r < -HalfPI THEN -PI - r ELSE r
    IN  SinSeries(q, (q \otimes q), 2, 8)

MathSin(v) ==
    IF ~isFinite(v) THEN NaN
    ELSE LET m == v % TwoPI
         IN  SinReduced(IF m > PI THEN m - TwoPI ELSE m)

CosReduced(r) ==
    LET q == IF r > HalfPI THEN PI - r ELSE IF r < -HalfPI THEN -PI - r ELSE r
        c == SinSeries(SCALE, (q \otimes q), 1, 8)
    IN  IF q = r THEN c ELSE -c

MathCos(v) ==
    IF ~isFinite(v) THEN NaN
    ELSE LET m == v % TwoPI
         IN  CosReduced(IF m > PI THEN m - TwoPI ELSE m)

MathTan(v) == IF ~isFinite(v) THEN NaN ELSE (Math("sin", v) \oslash Math("cos", v))

\* Math.atan, Math.asin, Math.acos
RECURSIVE AtanSeries(_, _, _, _)
AtanSeries(p, w, n, k) ==
    IF k = 0 \/ p = 0 THEN 0
    ELSE DivInt(p, n) + AtanSeries(-(p \otimes w), w, n + 2, k - 1)

Sqrt3 == 1732051
SixthPI == 523599

AtanMag(y) ==
    LET inv == y > SCALE
        u == IF inv THEN (SCALE \oslash y) ELSE y
        red == u > 267949
        w == IF red THEN (((Sqrt3 \otimes u) - SCALE) \oslash (Sqrt3 + u)) ELSE u
        s == AtanSeries(w, (w \otimes w), 1, 8) + (IF red THEN SixthPI ELSE 0)
    IN  IF inv THEN HalfPI - s ELSE s

MathAtan(v) ==
    IF v = NaN THEN NaN
    ELSE IF v = PosInf THEN HalfPI
    ELSE IF v = NegInf THEN -HalfPI
    ELSE Sign(v) * AtanMag(Abs(v))

MathAsin(v) ==
    IF v = NaN \/ v > SCALE \/ v < -SCALE THEN NaN
    ELSE IF v = SCALE THEN HalfPI
    ELSE IF v = -SCALE THEN -HalfPI
    ELSE Math("atan", v \oslash Math("sqrt", SCALE - (v \otimes v)))

MathAcos(v) ==
    LET complement(s) == IF s = NaN THEN NaN ELSE HalfPI - s
    IN  complement(Math("asin", v))

\* The ** operator (Number::exponentiate).
RECURSIVE PowInt(_, _)
PowInt(a, n) ==
    IF n = 0 THEN SCALE
    ELSE IF n % 2 = 0 THEN LET h == PowInt(a, n \div 2) IN (h \otimes h)
    ELSE (a \otimes PowInt(a, n - 1))

Pow(a, b) ==
    IF b = 0 THEN SCALE
    ELSE IF a = NaN \/ b = NaN THEN NaN
    ELSE IF ~isFinite(b)
         THEN (IF Abs(a) = SCALE THEN NaN
               ELSE IF (Abs(a) > SCALE) = (b > 0) THEN PosInf ELSE 0)
    ELSE IF b % SCALE = 0
         THEN (IF b > 0 THEN PowInt(a, b \div SCALE)
               ELSE (SCALE \oslash PowInt(a, (-b) \div SCALE)))
    ELSE IF a < 0 THEN NaN
    ELSE IF a = 0 THEN (IF b > 0 THEN 0 ELSE PosInf)
    ELSE IF a = PosInf THEN (IF b > 0 THEN PosInf ELSE 0)
    ELSE Math("exp", b \otimes Math("log", a))

(***************************************************************************)
(* Strings are sequences of one-character strings.                         *)
(***************************************************************************)
Digit == {"0", "1", "2", "3", "4", "5", "6", "7", "8", "9"}
LowerLetter == {"a", "b", "c", "d", "e", "f", "g", "h", "i", "j", "k", "l", "m",
                "n", "o", "p", "q", "r", "s", "t", "u", "v", "w", "x", "y", "z"}
UpperLetter == {"A", "B", "C", "D", "E", "F", "G", "H", "I", "J", "K", "L", "M",
                "N", "O", "P", "Q", "R", "S", "T", "U", "V", "W", "X", "Y", "Z"}
\* \w of a regular expression
WordChar == Digit \cup LowerLetter \cup UpperLetter \cup {"_"}
WhiteSpace == {" "}

LowerOf ==
    [c \in UpperLetter |->
        CASE c = "A" -> "a" [] c = "B" -> "b" [] c = "C" -> "c" [] c = "D" -> "d"
          [] c = "E" -> "e" [] c = "F" -> "f" [] c = "G" -> "g" [] c = "H" -> "h"
          [] c = "I" -> "i" [] c = "J" -> "j" [] c = "K" -> "k" [] c = "L" -> "l"
          [] c = "M" -> "m" [] c = "N" -> "n" [] c = "O" -> "o" [] c = "P" -> "p"
          [] c = "Q" -> "q" [] c = "R" -> "r" [] c = "S" -> "s" [] c = "T" -> "t"
          [] c = "U" -> "u" [] c = "V" -> "v" [] c = "W" -> "w" [] c = "X" -> "x"
          [] c = "Y" -> "y" [] c = "Z" -> "z"]

\* String.prototype.toLowerCase
toLowerCase(s) == [i \in 1..Len(s) |-> IF s[i] \in UpperLetter THEN LowerOf[s[i]] ELSE s[i]]

\* The least element of a set of positions, or 0 for the empty set.
First(positions) ==
    IF positions = {} THEN 0 ELSE CHOOSE k \in positions : \A j \in positions : k <= j

\* A variant of trim that removes nothing.
trimNothing(s) == s

\* String.prototype.trim
trim(s) ==
    LET kept == {k \in 1..Len(s) : s[k] \notin WhiteSpace}
    IN  IF kept = {} THEN <<>>
        ELSE SubSeq(s, First(kept), CHOOSE k \in kept : \A j \in kept : j <= k)

\* s.substring(i - 1): the rest of s from position i.
From(s, i) == IF i > Len(s) THEN <<>> ELSE SubSeq(s, i, Len(s))

\* The literal lit stands in s at position i.
LitAt(s, i, lit) ==
    /\ i >= 1
    /\ i + Len(lit) - 1 <= Len(s)
    /\ \A k \in 1..Len(lit) : s[i + k - 1] = lit[k]

IsWordAt(s, i) == i >= 1 /\ i <= Len(s) /\ s[i] \in WordChar

\* \b of a regular expression, between positions i-1 and i of s.
WordBoundary(s, i) == IsWordAt(s, i - 1) # IsWordAt(s, i)

\* First position >= i of s holding a character of set, or 0.
IndexIn(s, i, set) == First({k \in i..Len(s) : s[k] \in set})

\* First position >= i of s holding a character outside set (Len(s)+1 if none).
RunEnd(s, i, set) ==
    LET outside == {k \in i..Len(s) : s[k] \notin set}
    IN  IF i > Len(s) THEN i ELSE IF outside = {} THEN Len(s) + 1 ELSE First(outside)

\* A global replace scans for the leftmost match at or after the end of the
\* previous one: each operator below copies s up to that match, writes the
\* replacement and goes on behind the match.

\* s.replace(/\|([^|]+)\|/g, 'abs($1)'), scanning from position i.
RECURSIVE ReplaceAbsBars(_, _)
ReplaceAbsBars(s, i) ==
    LET m == First({k \in i..Len(s) : s[k] = "|" /\ IndexIn(s, k + 1, {"|"}) > k + 1})
        j == IndexIn(s, m + 1, {"|"})
    IN  IF m = 0 THEN From(s, i)
        ELSE SubSeq(s, i, m - 1) \o <<"a", "b", "s", "(">> \o SubSeq(s, m + 1, j - 1)
                 \o <<")">> \o ReplaceAbsBars(s, j + 1)

\* s.replace(/\^/g, '**'), scanning from position i.
RECURSIVE ReplaceCaret(_, _)
ReplaceCaret(s, i) ==
    LET m == IndexIn(s, i, {"^"})
    IN  IF m = 0 THEN From(s, i)
        ELSE SubSeq(s, i, m - 1) \o <<"*", "*">> \o ReplaceCaret(s, m + 1)

\* /\blog(\d+)\(/ matches at position i of s.
LogBaseAt(s, i) ==
    /\ WordBoundary(s, i)
    /\ LitAt(s, i, <<"l", "o", "g">>)
    /\ RunEnd(s, i + 3, Digit) > i + 3
    /\ LitAt(s, RunEnd(s, i + 3, Digit), <<"(">>)

\* s.replace(/\blog(\d+)\(/g, 'log_base($1,'), scanning from position i.
RECURSIVE ReplaceLogBase(_, _)
ReplaceLogBase(s, i) ==
    LET m == First({k \in i..Len(s) : LogBaseAt(s, k)})
        e == RunEnd(s, m + 3, Digit)
    IN  IF m = 0 THEN From(s, i)
        ELSE SubSeq(s, i, m - 1) \o <<"l", "o", "g", "_", "b", "a", "s", "e", "(">>
                 \o SubSeq(s, m + 3, e - 1) \o <<",">> \o ReplaceLogBase(s, e + 1)

\* s.replace(/(F)(S)/g, '$1*$2') for character classes F and S, from position i.
RECURSIVE InsertStar(_, _, _, _)
InsertStar(s, i, first, second) ==
    LET m == First({k \in i..(Len(s) - 1) : s[k] \in first /\ s[k + 1] \in second})
    IN  IF m = 0 THEN From(s, i)
        ELSE SubSeq(s, i, m) \o <<"*">> \o <<s[m + 1]>> \o InsertStar(s, m + 2, first, second)

\* s.replace(new RegExp(`\\b${func}\\b`, 'g'), repl), scanning from position i.
RECURSIVE ReplaceWord(_, _, _, _)
ReplaceWord(s, i, func, repl) ==
    LET m == First({k \in i..Len(s) : /\ LitAt(s, k, func)
                                      /\ WordBoundary(s, k)
                                      /\ WordBoundary(s, k + Len(func))})
    IN  IF m = 0 THEN From(s, i)
        ELSE SubSeq(s, i, m - 1) \o repl \o ReplaceWord(s, m + Len(func), func, repl)

\* The object literal mathFunctions, in insertion order: <<key, replacement>>.
mathFunctions ==
    << << <<"s","i","n">>,             <<"M","a","t","h",".","s","i","n">> >>,
       << <<"c","o","s">>,             <<"M","a","t","h",".","c","o","s">> >>,
       << <<"t","a","n">>,             <<"M","a","t","h",".","t","a","n">> >>,
       << <<"s","q","r","t">>,         <<"M","a","t","h",".","s","q","r","t">> >>,
       << <<"a","b","s">>,             <<"M","a","t","h",".","a","b","s">> >>,
       << <<"e","x","p">>,             <<"M","a","t","h",".","e","x","p">> >>,
       << <<"l","n">>,                 <<"M","a","t","h",".","l","o","g">> >>,
       << <<"l","o","g">>,             <<"M","a","t","h",".","l","o","g","1","0">> >>,
       << <<"a","r","c","s","i","n">>, <<"M","a","t","h",".","a","s","i","n">> >>,
       << <<"a","r","c","c","o","s">>, <<"M","a","t","h",".","a","c","o","s">> >>,
       << <<"a","r","c","t","a","n">>, <<"M","a","t","h",".","a","t","a","n">> >>,
       << <<"a","s","i","n">>,         <<"M","a","t","h",".","a","s","i","n">> >>,
       << <<"a","c","o","s">>,         <<"M","a","t","h",".","a","c","o","s">> >>,
       << <<"a","t","a","n">>,         <<"M","a","t","h",".","a","t","a","n">> >>,
       << <<"p","i">>,                 <<"M","a","t","h",".","P","I">> >>,
       << <<"e">>,                     <<"M","a","t","h",".","E">> >> >>

\* Array.prototype.sort((a, b) => b.length - a.length): a stable sort, longest
\* key first, by insertion.
RECURSIVE InsertByLength(_, _)
InsertByLength(sorted, kv) ==
    IF sorted = <<>> THEN <<kv>>
    ELSE IF Len(Head(sorted)[1]) >= Len(kv[1])
         THEN <<Head(sorted)>> \o InsertByLength(Tail(sorted), kv)
         ELSE <<kv>> \o sorted

RECURSIVE SortByLength(_, _)
SortByLength(keys, n) ==
    IF n = 0 THEN <<>> ELSE InsertByLength(SortByLength(keys, n - 1), keys[n])

sortedKeys == SortByLength(mathFunctions, Len(mathFunctions))

\* for (const func of sortedKeys) s = s.replace(regex, mathFunctions[func]),
\* from the k-th key on.
RECURSIVE ReplaceFunctions(_, _, _)
ReplaceFunctions(s, keys, k) ==
    LET next(replaced) ==
            IF replaced = s THEN ReplaceFunctions(s, keys, k + 1)
            ELSE ReplaceFunctions(replaced, keys, k + 1)
    IN  IF k > Len(keys) THEN s
        ELSE next(ReplaceWord(s, 1, keys[k][1], keys[k][2]))

\* The implicit-multiplication step of preprocessInput.
ImplicitMultiplication(s) ==
    LET s1 == InsertStar(s, 1, Digit, LowerLetter \cup {"("})
        s2 == InsertStar(s1, 1, {")"}, Digit)
    IN  InsertStar(s2, 1, {")"}, LowerLetter)

preprocessInput(expr) ==
    LET s0 == trim(toLowerCase(expr))
    IN  IF s0 = <<>> THEN <<"0">>
        ELSE ReplaceFunctions(
                 ImplicitMultiplication(
                     ReplaceLogBase(ReplaceCaret(ReplaceAbsBars(s0, 1), 1), 1)),
                 sortedKeys, 1)

(***************************************************************************)
(* Values of the evaluator.  new Function('x', 'Math', 'return <expr>')    *)
(* runs the rewritten formula as JavaScript.  A value is a number (at most *)
(* NaN in the encoding) or one of the codes below: undefined, the Math     *)
(* object, a function, a thrown exception.  Unsupported marks JavaScript   *)
(* outside the fragment modelled here; no formula of the model reaches it. *)
(***************************************************************************)
Undefined == 2100000000
ObjMath == 2100000001
Thrown == 2100000002
Unsupported == 2100000003
FnLogBase == 2100000010
FnMath == 2100000020

IsNumber(v) == v <= NaN
\* ToNumber of undefined, of an object and of a function is NaN.
ToNumber(v) == IF IsNumber(v) THEN v ELSE NaN
IsFunction(v) == v >= FnLogBase

\* The function properties of Math that the formulas reach, and its constants.
MathFunctionNames ==
    << <<"s", "i", "n">>, <<"c", "o", "s">>, <<"t", "a", "n">>, <<"s", "q", "r", "t">>, <<"a", "b", "s">>, <<"e", "x", "p">>, <<"l", "o", "g">>, <<"l", "o", "g", "1", "0">>, <<"a", "s", "i", "n">>, <<"a", "c", "o", "s">>, <<"a", "t", "a", "n">> >>

IndexOf(seq, e) ==
    IF \E i \in 1..Len(seq) : seq[i] = e
    THEN CHOOSE i \in 1..Len(seq) : seq[i] = e
    ELSE 0

\* Math[name]
MathProperty(name) ==
    IF name = <<"P", "I">> THEN PI
    ELSE IF name = <<"E">> THEN E
    ELSE IF IndexOf(MathFunctionNames, name) # 0 THEN FnMath + IndexOf(MathFunctionNames, name)
    ELSE IF name = <<"M", "a", "t", "h">> THEN Undefined
    ELSE Unsupported

\* A call of a function of Math with the argument list args (numbers).
ApplyMath(k, args) ==
    Math(<<"sin", "cos", "tan", "sqrt", "abs", "exp", "log", "log10", "asin", "acos", "atan">>[k],
         IF args = <<>> THEN NaN ELSE ToNumber(args[1]))

\* const log_base = (b, v) => Math.log(v) / Math.log(b)
log_base(b, v) == Math("log", v) \oslash Math("log", b)

\* Names the global scope of the page resolves (used as free names in app.js)
\* and the literals and keywords of the language: outside the fragment.
HostNames ==
    { <<"w", "i", "n", "d", "o", "w">>, <<"d", "o", "c", "u", "m", "e", "n", "t">>, <<"n", "a", "v", "i", "g", "a", "t", "o", "r">>, <<"a", "l", "e", "r", "t">>, <<"c", "o", "n", "s", "o", "l", "e">>, <<"a", "t", "o", "b">>, <<"b", "t", "o", "a">>,
      <<"s", "e", "l", "f">>, <<"t", "o", "p">>, <<"p", "a", "r", "e", "n", "t">>, <<"n", "a", "m", "e">>, <<"l", "e", "n", "g", "t", "h">>, <<"s", "t", "a", "t", "u", "s">>, <<"o", "r", "i", "g", "i", "n">>, <<"l", "o", "c", "a", "t", "i", "o", "n">>,
      <<"h", "i", "s", "t", "o", "r", "y">>, <<"s", "c", "r", "e", "e", "n">>, <<"e", "v", "e", "n", "t">>, <<"f", "r", "a", "m", "e", "s">>, <<"c", "l", "o", "s", "e", "d">>, <<"e", "v", "a", "l">>, <<"e", "s", "c", "a", "p", "e">>,
      <<"u", "n", "d", "e", "f", "i", "n", "e", "d">>, <<"n", "u", "l", "l">>, <<"t", "r", "u", "e">>, <<"f", "a", "l", "s", "e">>, <<"t", "h", "i", "s">>, <<"t", "y", "p", "e", "o", "f">>, <<"v", "o", "i", "d">>, <<"n", "e", "w">>,
      <<"d", "e", "l", "e", "t", "e">>, <<"f", "u", "n", "c", "t", "i", "o", "n">>, <<"v", "a", "r">>, <<"l", "e", "t">>, <<"c", "o", "n", "s", "t">>, <<"i", "f">>, <<"i", "n">>, <<"o", "f">>, <<"d", "o">>,
      <<"f", "o", "r">>, <<"w", "h", "i", "l", "e">>, <<"r", "e", "t", "u", "r", "n">>, <<"c", "l", "a", "s", "s">>, <<"a", "w", "a", "i", "t">>, <<"y", "i", "e", "l", "d">>, <<"a", "s", "y", "n", "c">> }

(***************************************************************************)
(* Tokens of the rewritten formula.                                        *)
(***************************************************************************)
DigitValue(c) ==
    CASE c = "0" -> 0 [] c = "1" -> 1 [] c = "2" -> 2 [] c = "3" -> 3 [] c = "4" -> 4
      [] c = "5" -> 5 [] c = "6" -> 6 [] c = "7" -> 7 [] c = "8" -> 8 [] c = "9" -> 9

\* Value of the digits s[i..j-1] as an integer, saturating above MaxFinite.
RECURSIVE DigitsValue(_, _, _, _)
DigitsValue(s, i, j, acc) ==
    IF i >= j THEN acc
    ELSE DigitsValue(s, i + 1, j, Min2(acc * 10 + DigitValue(s[i]), (2 * MaxFinite) \div SCALE))

\* Value of the fraction digits s[i..j-1], in units: the first six digits.
RECURSIVE FractionValue(_, _, _, _)
FractionValue(s, i, j, w) ==
    IF i >= j \/ w = 0 THEN 0
    ELSE DigitValue(s[i]) * w + FractionValue(s, i + 1, j, w \div 10)

IdentStart == LowerLetter \cup UpperLetter \cup {"_", "$"}
IdentPart == IdentStart \cup Digit

Token(t, s, v, next) == [t |-> t, s |-> s, v |-> v, next |-> next]

\* The token starting at position i of s (white space skipped) and the
\* position after it.  t is "num", "id", "op", "eof" or "bad".
RECURSIVE TokenAt(_, _)
TokenAt(s, i) ==
    IF i > Len(s) THEN Token("eof", <<>>, 0, i)
    ELSE IF s[i] \in WhiteSpace THEN TokenAt(s, i + 1)
    ELSE IF s[i] \in Digit \/ (s[i] = "." /\ i < Len(s) /\ s[i + 1] \in Digit)
    THEN LET ie == RunEnd(s, i, Digit)
             dot == ie <= Len(s) /\ s[ie] = "."
             fe == IF dot THEN RunEnd(s, ie + 1, Digit) ELSE ie
             val == Fix(DigitsValue(s, i, ie, 0) * SCALE
                        + (IF dot THEN FractionValue(s, ie + 1, fe, SCALE \div 10) ELSE 0))
         IN  IF fe <= Len(s) /\ s[fe] \in IdentPart \cup {"."}
             THEN Token("bad", <<>>, 0, fe)
             ELSE Token("num", <<>>, val, fe)
    ELSE IF s[i] \in IdentStart
    THEN LET e == RunEnd(s, i, IdentPart)
         IN  Token("id", SubSeq(s, i, e - 1), 0, e)
    ELSE IF s[i] \in {"+", "-", "*", "/", "="}
    THEN LET two == IF i < Len(s) THEN <<s[i], s[i + 1]>> ELSE <<s[i]>>
         IN  IF two = <<"*", "*">>
             THEN (IF i + 2 <= Len(s) /\ s[i + 2] = "="
                   THEN Token("bad", <<>>, 0, i + 3)
                   ELSE Token("op", two, 0, i + 2))
             ELSE IF Len(two) = 2 /\ (two[2] = "=" \/ two \in {<<"+", "+">>, <<"-", "-">>,
                                       <<"/", "/">>, <<"/", "*">>, <<"=", ">">>})
             THEN Token("bad", <<>>, 0, i + 2)
             ELSE Token("op", <<s[i]>>, 0, i + 1)
    ELSE IF s[i] \in {"(", ")", ",", "."}
    THEN Token("op", <<s[i]>>, 0, i + 1)
    ELSE Token("bad", <<>>, 0, i + 1)

RECURSIVE Tokens(_, _)
Tokens(s, i) ==
    LET from(tk) == IF tk.t = "eof" THEN <<>> ELSE <<tk>> \o Tokens(s, tk.next)
    IN  from(TokenAt(s, i))

(***************************************************************************)
(* The expression grammar of the language, for the fragment: assignment    *)
(* to a name, + - * /, unary + -, ** (right associative; a unary operand   *)
(* before ** is a SyntaxError), member access, calls, parentheses.         *)
(* A parse result is [st, n, p]: st is "ok", "syntax" (SyntaxError) or     *)
(* "unsupported"; n the node; p the position of the next token.            *)
(***************************************************************************)
Eof == Token("eof", <<>>, 0, 0)
Tok(ts, p) == IF p <= Len(ts) THEN ts[p] ELSE Eof
IsOp(ts, p, o) == Tok(ts, p).t = "op" /\ Tok(ts, p).s = o

Ok(n, p) == [st |-> "ok", n |-> n, p |-> p]
Fail(st, p) == [st |-> st, n |-> [op |-> "none"], p |-> p]

\* An expression inside parentheses or an argument list: an assignment or a
\* comma expression there is outside the fragment.
ParseInner(ts, p) ==
    LET r == apply("ParseAssign", <<ts, p>>)
    IN  IF r.st = "ok" /\ r.n.op = "assign" THEN Fail("unsupported", r.p) ELSE r

RECURSIVE ParseArgs(_, _, _)
ParseArgs(ts, p, acc) ==
    IF IsOp(ts, p, <<")">>) THEN Ok(acc, p + 1)
    ELSE LET r == ParseInner(ts, p)
         IN  IF r.st # "ok" THEN r
             ELSE IF IsOp(ts, r.p, <<",">>) THEN ParseArgs(ts, r.p + 1, Append(acc, r.n))
             ELSE IF IsOp(ts, r.p, <<")">>) THEN Ok(Append(acc, r.n), r.p + 1)
             ELSE Fail("syntax", r.p)

ParsePrimary(ts, p) ==
    LET tk == Tok(ts, p)
    IN  IF tk.t = "num" THEN Ok([op |-> "num", v |-> tk.v], p + 1)
        ELSE IF tk.t = "id"
             THEN (IF tk.s \in HostNames THEN Fail("unsupported", p)
                   ELSE Ok([op |-> "id", s |-> tk.s], p + 1))
        ELSE IF tk.t = "bad" THEN Fail("unsupported", p)
        ELSE IF IsOp(ts, p, <<"(">>)
             THEN LET r == ParseInner(ts, p + 1)
                  IN  IF r.st # "ok" THEN r
                      ELSE IF IsOp(ts, r.p, <<")">>) THEN Ok(r.n, r.p + 1)
                      ELSE IF IsOp(ts, r.p, <<",">>) THEN Fail("unsupported", r.p)
                      ELSE Fail("syntax", r.p)
        ELSE Fail("syntax", p)

\* Member accesses and calls after the expression l.n, from token l.p.
ParsePostRest(ts, l) ==
    IF l.st # "ok" THEN l
    ELSE IF IsOp(ts, l.p, <<".">>)
         THEN (IF Tok(ts, l.p + 1).t = "id"
               THEN apply("ParsePostRest", <<ts, Ok([op |-> "member", a |-> l.n, s |-> Tok(ts, l.p + 1).s],
                                         l.p + 2)>>)
               ELSE Fail("syntax", l.p + 1))
    ELSE IF IsOp(ts, l.p, <<"(">>)
         THEN LET r == apply("ParseArgs", <<ts, l.p + 1, <<>>>>)
              IN  IF r.st # "ok" THEN r
                  ELSE apply("ParsePostRest", <<ts, Ok([op |-> "call", a |-> l.n, args |-> r.n], r.p)>>)
    ELSE l

ParseUnary(ts, p) ==
    IF IsOp(ts, p, <<"-">>) \/ IsOp(ts, p, <<"+">>)
    THEN LET r == apply("ParseUnary", <<ts, p + 1>>)
         IN  IF r.st # "ok" THEN r
             ELSE Ok([op |-> IF IsOp(ts, p, <<"-">>) THEN "neg" ELSE "pos", a |-> r.n], r.p)
    ELSE apply("ParsePostRest", <<ts, apply("ParsePrimary", <<ts, p>>)>>)

ParseExp(ts, p) ==
    IF IsOp(ts, p, <<"-">>) \/ IsOp(ts, p, <<"+">>)
    THEN LET u == apply("ParseUnary", <<ts, p>>)
         IN  IF u.st = "ok" /\ IsOp(ts, u.p, <<"*", "*">>) THEN Fail("syntax", u.p) ELSE u
    ELSE LET b == apply("ParsePostRest", <<ts, apply("ParsePrimary", <<ts, p>>)>>)
         IN  IF b.st = "ok" /\ IsOp(ts, b.p, <<"*", "*">>)
             THEN LET r == apply("ParseExp", <<ts, b.p + 1>>)
                  IN  IF r.st # "ok" THEN r
                      ELSE Ok([op |-> "pow", a |-> b.n, b |-> r.n], r.p)
             ELSE b

ParseMulRest(ts, l) ==
    IF l.st # "ok" THEN l
    ELSE IF IsOp(ts, l.p, <<"*">>) \/ IsOp(ts, l.p, <<"/">>)
         THEN LET r == apply("ParseExp", <<ts, l.p + 1>>)
              IN  IF r.st # "ok" THEN r
                  ELSE apply("ParseMulRest", <<ts, Ok([op |-> IF IsOp(ts, l.p, <<"*">>) THEN "mul" ELSE "div",
                                            a |-> l.n, b |-> r.n], r.p)>>)
    ELSE l

ParseAddRest(ts, l) ==
    IF l.st # "ok" THEN l
    ELSE IF IsOp(ts, l.p, <<"+">>) \/ IsOp(ts, l.p, <<"-">>)
         THEN LET r == apply("ParseMulRest", <<ts, apply("ParseExp", <<ts, l.p + 1>>)>>)
              IN  IF r.st # "ok" THEN r
                  ELSE apply("ParseAddRest", <<ts, Ok([op |-> IF IsOp(ts, l.p, <<"+">>) THEN "add" ELSE "sub",
                                            a |-> l.n, b |-> r.n], r.p)>>)
    ELSE l

ParseAssign(ts, p) ==
    IF Tok(ts, p).t = "id" /\ Tok(ts, p).s \notin HostNames /\ IsOp(ts, p + 1, <<"=">>)
    THEN LET r == apply("ParseAssign", <<ts, p + 2>>)
         IN  IF r.st # "ok" THEN r
             ELSE Ok([op |-> "assign", s |-> Tok(ts, p).s, a |-> r.n], r.p)
    ELSE apply("ParseAddRest", <<ts, apply("ParseMulRest", <<ts, apply("ParseExp", <<ts, p>>)>>)>>)

\* The body "return <expr>;" as new Function compiles it.
ParseBody(ts) ==
    LET r == apply("ParseAssign", <<ts, 1>>)
    IN  IF r.st # "ok" THEN r
        ELSE IF r.p > Len(ts) THEN r
        ELSE IF Tok(ts, r.p).t = "bad" \/ IsOp(ts, r.p, <<",">>) \/ IsOp(ts, r.p, <<"=">>)
             THEN Fail("unsupported", r.p)
        ELSE Fail("syntax", r.p)

compileExpr(expr) == ParseBody(Tokens(expr, 1))

(***************************************************************************)
(* Evaluation of a node with the parameter x.                              *)
(***************************************************************************)
Abrupt(v) == v = Thrown \/ v = Unsupported

RECURSIVE Eval(_, _)
RECURSIVE EvalArgs(_, _, _)

\* The argument values, left to right; <<Thrown>> or <<Unsupported>> alone if
\* the evaluation of an argument ends abruptly.
EvalArgs(args, x, k) ==
    IF k > Len(args) THEN <<>>
    ELSE LET v == Eval(args[k], x)
         IN  IF Abrupt(v) THEN <<v>>
             ELSE LET rest == EvalArgs(args, x, k + 1)
                  IN  IF rest # <<>> /\ Abrupt(rest[1]) THEN rest ELSE <<v>> \o rest

Binary(op, l, r) ==
    IF Abrupt(l) THEN l
    ELSE IF Abrupt(r) THEN r
    ELSE CASE op = "add" -> (ToNumber(l) \oplus ToNumber(r))
           [] op = "sub" -> (ToNumber(l) \ominus ToNumber(r))
           [] op = "mul" -> (ToNumber(l) \otimes ToNumber(r))
           [] op = "div" -> (ToNumber(l) \oslash ToNumber(r))
           [] OTHER -> Pow(ToNumber(l), ToNumber(r))

Call(f, args) ==
    IF Abrupt(f) THEN f
    ELSE IF args # <<>> /\ Abrupt(args[1]) THEN args[1]
    ELSE IF ~IsFunction(f) THEN Thrown
    ELSE IF f = FnLogBase
         THEN log_base(IF Len(args) >= 1 THEN ToNumber(args[1]) ELSE NaN,
                       IF Len(args) >= 2 THEN ToNumber(args[2]) ELSE NaN)
    ELSE ApplyMath(f - FnMath, args)

Member(o, name) ==
    IF Abrupt(o) THEN o
    ELSE IF o = Undefined THEN Thrown
    ELSE IF o = ObjMath THEN MathProperty(name)
    ELSE IF IsFunction(o) \/ name = <<"c", "o", "n", "s", "t", "r", "u", "c", "t", "o", "r">> THEN Unsupported
    ELSE Undefined

Eval(n, x) ==
    CASE n.op = "num" -> n.v
      [] n.op = "id" ->
            IF n.s = <<"x">> THEN x
            ELSE IF n.s = <<"M", "a", "t", "h">> THEN ObjMath
            ELSE IF n.s = <<"l", "o", "g", "_", "b", "a", "s", "e">> THEN FnLogBase
            ELSE Thrown
      [] n.op = "neg" -> LET v == Eval(n.a, x) IN IF Abrupt(v) THEN v ELSE Neg(ToNumber(v))
      [] n.op = "pos" -> LET v == Eval(n.a, x) IN IF Abrupt(v) THEN v ELSE ToNumber(v)
      [] n.op = "member" -> Member(Eval(n.a, x), n.s)
      [] n.op = "call" -> Call(Eval(n.a, x), EvalArgs(n.args, x, 1))
      [] n.op = "assign" ->
            \* the value assigned; log_base is a const (TypeError)
            LET v == Eval(n.a, x)
            IN  IF Abrupt(v) THEN v
                ELSE IF n.s = <<"l", "o", "g", "_", "b", "a", "s", "e">> THEN Thrown ELSE v
      [] OTHER -> Binary(n.op, Eval(n.a, x), Eval(n.b, x))

\* A variant of runCompiled without the try/catch and without the typeof
\* test: what the body throws or returns reaches the caller.
runCompiledUncaught(c, x) ==
    IF c.st = "syntax" THEN Thrown
    ELSE IF c.st = "unsupported" THEN Unsupported
    ELSE Eval(c.n, x)

\* func(x, Math) for a compiled body; safeEval's try/catch and typeof test.
runCompiled(c, x) ==
    LET returned(result) ==
            IF result = Unsupported THEN Unsupported
            ELSE IF result = Thrown THEN NaN
            ELSE IF IsNumber(result) THEN result ELSE NaN
    IN  IF c.st = "syntax" THEN NaN
        ELSE IF c.st = "unsupported" THEN Unsupported
        ELSE returned(Eval(c.n, x))

safeEval(expr, x) == apply("runCompiled", <<apply("compileExpr", <<expr>>), x>>)

(***************************************************************************)
(* Piecewise envelopes.  A piece is [expr, rangeStart, rangeEnd], three    *)
(* strings (the id and the colour of a piece take no part in a value).     *)
(***************************************************************************)
Piece(expr, rangeStart, rangeEnd) ==
    [expr |-> expr, rangeStart |-> rangeStart, rangeEnd |-> rangeEnd]

\* One element of compiledFuncs: the piece's function and its range.
compilePiece(f) ==
    [func |-> apply("compileExpr", <<apply("preprocessInput", <<f.expr>>)>>),
     range |-> << IF f.rangeStart # <<>> THEN apply("safeEval", <<apply("preprocessInput", <<f.rangeStart>>), 0>>)
                  ELSE NegInf,
                  IF f.rangeEnd # <<>> THEN apply("safeEval", <<apply("preprocessInput", <<f.rangeEnd>>), 0>>)
                  ELSE PosInf >>]

\* funcsList.map(f => ({func, range})), from the k-th piece on.
RECURSIVE compilePieces(_, _)
compilePieces(funcsList, k) ==
    IF k > Len(funcsList) THEN <<>>
    ELSE <<apply("compilePiece", <<funcsList[k]>>)>> \o compilePieces(funcsList, k + 1)

\* A variant of InRange that tests the start of the range only.
InRangeFrom(f, x) == Ge(x, f.range[1])

\* x >= f.range[0] && x <= f.range[1]
InRange(f, x) == Ge(x, f.range[1]) /\ Le(x, f.range[2])

\* A variant of finiteValues without the filter.
RECURSIVE activeValues(_, _, _)
activeValues(compiled, x, k) ==
    IF k > Len(compiled) THEN <<>>
    ELSE IF InRange(compiled[k], x)
         THEN <<apply("runCompiled", <<compiled[k].func, x>>)>> \o activeValues(compiled, x, k + 1)
         ELSE activeValues(compiled, x, k + 1)

\* active.map(f => f.func(x)).filter(v => isFinite(v)), from the k-th piece on.
RECURSIVE finiteValues(_, _, _)
finiteValues(compiled, x, k) ==
    IF k > Len(compiled) THEN <<>>
    ELSE IF InRange(compiled[k], x)
         THEN LET v == apply("runCompiled", <<compiled[k].func, x>>)
              IN  (IF isFinite(v) THEN <<v>> ELSE <<>>) \o finiteValues(compiled, x, k + 1)
         ELSE finiteValues(compiled, x, k + 1)

\* A variant of MathMax that returns its first argument.
MathMaxFirst(values) == values[1]

\* Math.max(...values) and Math.min(...values) of finite values.
RECURSIVE MathMax(_)
MathMax(values) ==
    IF Len(values) = 1 THEN values[1] ELSE Max2(values[1], MathMax(Tail(values)))
RECURSIVE MathMin(_)
MathMin(values) ==
    IF Len(values) = 1 THEN values[1] ELSE Min2(values[1], MathMin(Tail(values)))

\* The callback of xValues.map in evaluatePiecewise, and evalSet of createDisks:
\* the value of a compiled group at one x.
evalSet(compiledList, x, mode) ==
    LET values == apply("finiteValues", <<compiledList, x, 1>>)
    IN  IF values = <<>> THEN 0
        ELSE IF mode = "max" THEN MathMax(values) ELSE MathMin(values)

\* xValues.map(x => ...) over xValues[lo..hi].
RECURSIVE mapSites(_, _, _, _, _)
mapSites(compiled, xValues, mode, lo, hi) ==
    IF lo > hi THEN <<>>
    ELSE IF lo = hi THEN <<apply("evalSet", <<compiled, xValues[lo], mode>>)>>
    ELSE LET mid == (lo + hi) \div 2
         IN  mapSites(compiled, xValues, mode, lo, mid)
                 \o mapSites(compiled, xValues, mode, mid + 1, hi)

\* A variant of envelopeMode: 'max' for the upper group and 'min' for the
\* lower one, as the comment at line 602 proposes.
envelopeModeMinForLower(caller, group) == IF group = "lower" THEN "min" ELSE "max"

\* The mode each caller of evaluatePiecewise and evalSet passes for a group:
\* 'max' in updateSolid (lines 604 and 623), in createDisks (lines 1011 and
\* 1012) and in updateMeasurements (lines 1118 and 1119).
envelopeMode(caller, group) == "max"

\* compiledFuncs is built once, before xValues.map runs over the sites.
evaluatePiecewise(funcsList, xValues, mode) ==
    LET compiledFuncs == apply("compilePieces", <<funcsList, 1>>)
    IN  IF Len(xValues) = 0 THEN <<>>
        ELSE IF Len(compiledFuncs) = 0 THEN [i \in 1..Len(xValues) |-> 0]
        ELSE apply("mapSites", <<compiledFuncs, xValues, mode, 1, Len(xValues)>>)

(***************************************************************************)
(* The cross-axis rule, as each of the three paths writes it.              *)
(***************************************************************************)
\* updateSolid, smooth mode: rOuterArr.push / rInnerArr.push
latheRadii(f, g) ==
    IF Lt((f \otimes g), 0)
    THEN [rOuter |-> Max2(MathAbs(f), MathAbs(g)), rInner |-> 0]
    ELSE [rOuter |-> Max2(MathAbs(f), MathAbs(g)), rInner |-> Min2(MathAbs(f), MathAbs(g))]

\* A variant of diskRadii without the test of the signs: always the washer.
diskRadiiWasher(yUpper, yLower) ==
    [rOuter |-> Max2(MathAbs(yUpper), MathAbs(yLower)),
     rInner |-> Min2(MathAbs(yUpper), MathAbs(yLower))]

\* createDisks
diskRadii(yUpper, yLower) ==
    IF Lt((yUpper \otimes yLower), 0)
    THEN [rOuter |-> Max2(MathAbs(yUpper), MathAbs(yLower)), rInner |-> 0]
    ELSE LET r1 == MathAbs(yUpper)
             r2 == MathAbs(yLower)
         IN  [rOuter |-> Max2(r1, r2), rInner |-> Min2(r1, r2)]

\* A variant of measureRadii without the test of the signs: always the washer.
measureRadiiWasher(u_avg, l_avg) ==
    [rOuter |-> Max2(MathAbs(u_avg), MathAbs(l_avg)),
     rInner |-> Min2(MathAbs(u_avg), MathAbs(l_avg))]

\* updateMeasurements
measureRadii(u_avg, l_avg) ==
    IF Lt((u_avg \otimes l_avg), 0)
    THEN [rOuter |-> Max2(MathAbs(u_avg), MathAbs(l_avg)), rInner |-> 0]
    ELSE LET r1 == MathAbs(u_avg)
             r2 == MathAbs(l_avg)
         IN  [rOuter |-> Max2(r1, r2), rInner |-> Min2(r1, r2)]

(***************************************************************************)
(* updateMeasurements                                                      *)
(***************************************************************************)
\* const n = 1000
MeasureN == 1000

\* xValues.push(a + i * dx) for i = lo..hi
RECURSIVE measureSites(_, _, _, _)
measureSites(a, dx, lo, hi) ==
    IF lo > hi THEN <<>>
    ELSE IF lo = hi THEN <<(a \oplus (Num(lo) \otimes dx))>>
    ELSE LET mid == (lo + hi) \div 2
         IN  measureSites(a, dx, lo, mid) \o measureSites(a, dx, mid + 1, hi)

\* A variant of measureTerm that takes the left sample of the sub-interval
\* in place of the average of its two samples.
measureTermLeft(yUpper, yLower, dx, i) ==
    LET r == measureRadii(yUpper[i + 1], yLower[i + 1])
    IN  [volume |-> (((r.rOuter \otimes r.rOuter) \ominus (r.rInner \otimes r.rInner)) \otimes dx),
         area2D |-> (MathAbs((yUpper[i + 1] \ominus yLower[i + 1])) \otimes dx)]

\* One pass of the loop body for i (0-based), as the two increments.
measureTerm(yUpper, yLower, dx, i) ==
    LET u_avg == ((yUpper[i + 1] \oplus yUpper[i + 2]) \oslash Num(2))
        l_avg == ((yLower[i + 1] \oplus yLower[i + 2]) \oslash Num(2))
        r == measureRadii(u_avg, l_avg)
    IN  [volume |-> (((r.rOuter \otimes r.rOuter) \ominus (r.rInner \otimes r.rInner)) \otimes dx),
         area2D |-> (MathAbs((u_avg \ominus l_avg)) \otimes dx)]

\* The sums of the loop for i = lo..hi.
RECURSIVE measureSum(_, _, _, _, _)
measureSum(yUpper, yLower, dx, lo, hi) ==
    IF lo = hi THEN apply("measureTerm", <<yUpper, yLower, dx, lo>>)
    ELSE LET mid == (lo + hi) \div 2
             l == measureSum(yUpper, yLower, dx, lo, mid)
             r == measureSum(yUpper, yLower, dx, mid + 1, hi)
         IN  [volume |-> (l.volume \oplus r.volume), area2D |-> (l.area2D \oplus r.area2D)]

\* Number.prototype.toFixed(2), as the number of hundredths shown.
toFixed2(v) ==
    IF ~isFinite(v) THEN v
    ELSE IF v < 0 THEN -((5000 - v) \div 10000) ELSE (v + 5000) \div 10000

\* The two sums of the loop over the n sub-intervals, from the envelopes
\* sampled at the n + 1 sites.  (An index past the end of an array reads
\* undefined, which makes both sums NaN.)
quadrature(upper, lower, a, dx, n) ==
    LET xValues == apply("measureSites", <<a, dx, 0, n>>)
        yUpper == apply("evaluatePiecewise",
                        <<upper, xValues, envelopeMode("updateMeasurements", "upper")>>)
        yLower == apply("evaluatePiecewise",
                        <<lower, xValues, envelopeMode("updateMeasurements", "lower")>>)
    IN  IF Len(yUpper) > n /\ Len(yLower) > n
        THEN apply("measureSum", <<yUpper, yLower, dx, 0, n - 1>>)
        ELSE [volume |-> NaN, area2D |-> NaN]

\* The volume and area updateMeasurements computes and the two texts it shows.
updateMeasurements(upper, lower, a, b, angleDeg) ==
    LET dx == ((b \ominus a) \oslash Num(MeasureN))
        sums == apply("quadrature", <<upper, lower, a, dx, MeasureN>>)
        ratio == (Num(angleDeg) \oslash Num(360))
        volume == MathAbs(((PI \otimes sums.volume) \otimes ratio))
    IN  [volume |-> volume, area2D |-> sums.area2D,
         volumeText |-> toFixed2(volume), areaText |-> toFixed2(sums.area2D)]

(***************************************************************************)
(* updateSolid and the functions it calls.  What an update leaves on the   *)
(* page is one record, view: the error overlay, the scene objects          *)
(* (solidMesh, wireframeMesh, profileLines, boundCircleA, boundCircleB,    *)
(* the axes) and the texts of the angle, volume and area labels.           *)
(***************************************************************************)
\* CONFIG.resolution and CONFIG.segments
resolution == 100
segments == 64

\* A scene object that is null.
null == [kind |-> "null"]

\* A variant of readBounds that does not exchange a and b.
readBoundsUnordered(inputAValue, inputBValue) ==
    LET val(value) == IF trim(value) = <<>> THEN <<"0">> ELSE value
        orZero(v) == IF isNaN(v) THEN 0 ELSE v
        read(value) == orZero(apply("safeEval", <<apply("preprocessInput", <<val(value)>>), 0>>))
        apart(a, b) ==
            [a |-> a, b |-> IF Lt(MathAbs(a \ominus b), 10000) THEN a \oplus 10000 ELSE b]
    IN  apart(read(inputAValue), read(inputBValue))

\* A variant of readBounds without the fallback to 0 of a bound that is
\* not a number.
readBoundsNoFallback(inputAValue, inputBValue) ==
    LET val(value) == IF trim(value) = <<>> THEN <<"0">> ELSE value
        read(value) == apply("safeEval", <<apply("preprocessInput", <<val(value)>>), 0>>)
        apart(a, b) ==
            [a |-> a, b |-> IF Lt(MathAbs(a \ominus b), 10000) THEN a \oplus 10000 ELSE b]
        ordered(a, b) == IF Gt(a, b) THEN apart(b, a) ELSE apart(a, b)
    IN  ordered(read(inputAValue), read(inputBValue))

\* Lines 568-589: the bounds read from the two inputs, defaulted, ordered and
\* kept at least 0.01 apart.
readBounds(inputAValue, inputBValue) ==
    LET \* const valA = inputA.value.trim() === '' ? '0' : inputA.value
        val(value) == IF trim(value) = <<>> THEN <<"0">> ELSE value
        \* let a = safeEval(preprocessInput(valA), 0); if (isNaN(a)) a = 0
        orZero(v) == IF isNaN(v) THEN 0 ELSE v
        read(value) == orZero(apply("safeEval", <<apply("preprocessInput", <<val(value)>>), 0>>))
        \* if (Math.abs(a - b) < 0.01) b = a + 0.01
        apart(a, b) ==
            [a |-> a, b |-> IF Lt(MathAbs(a \ominus b), 10000) THEN a \oplus 10000 ELSE b]
        \* if (a > b) [a, b] = [b, a]
        ordered(a, b) == IF Gt(a, b) THEN apart(b, a) ELSE apart(a, b)
    IN  ordered(read(inputAValue), read(inputBValue))

\* xValues.push(a + (b - a) * (i / CONFIG.resolution)) for i = lo..hi
RECURSIVE displaySites(_, _, _, _)
displaySites(a, b, lo, hi) ==
    IF lo > hi THEN <<>>
    ELSE IF lo = hi
         THEN <<(a \oplus ((b \ominus a) \otimes (Num(lo) \oslash Num(resolution))))>>
    ELSE LET mid == (lo + hi) \div 2
         IN  displaySites(a, b, lo, mid) \o displaySites(a, b, mid + 1, hi)

\* yOuter.some(v => !isFinite(v)) || yInner.some(v => !isFinite(v))
hasInvalid(yOuter, yInner) ==
    \/ \E i \in 1..Len(yOuter) : ~isFinite(yOuter[i])
    \/ \E i \in 1..Len(yInner) : ~isFinite(yInner[i])

\* rOuterArr and rInnerArr of the smooth branch, entries lo..hi.
RECURSIVE latheArrays(_, _, _, _)
latheArrays(yOuter, yInner, lo, hi) ==
    IF lo > hi THEN <<>>
    ELSE IF lo = hi THEN <<latheRadii(yOuter[lo], yInner[lo])>>
    ELSE LET mid == (lo + hi) \div 2
         IN  latheArrays(yOuter, yInner, lo, mid)
                 \o latheArrays(yOuter, yInner, mid + 1, hi)

\* The smooth branch: the radii of the lathe and the lengths of the position
\* and index buffers that addSurface (twice) and addEndCap (twice) fill.
latheGeometry(yOuter, yInner) ==
    [kind |-> "lathe",
     radii |-> latheArrays(yOuter, yInner, 1, resolution + 1),
     positions |-> 3 * (2 * (resolution + 1) * (segments + 1) + 4 * (segments + 1)),
     indices |-> 2 * (resolution * segments * 6) + 2 * (segments * 6)]

\* addSurface: the vertex pushed to positions for site i (of abscissa x and
\* radius radiusArray[i]) and step j of the sweep.
surfaceVertex(x, radius, j, angleRad) ==
    LET r == MathAbs(radius)
        theta == ((Num(j) \oslash Num(segments)) \otimes angleRad)
    IN  << x, (r \otimes Math("cos", theta)), (r \otimes Math("sin", theta)) >>

\* A variant of cellTriangles that takes a site to hold thetaSegments + 2
\* vertices.
cellTrianglesWide(startVertexIndex, i, j, flipNormals, thetaSegments) ==
    LET va == startVertexIndex + i * (thetaSegments + 2) + j
        vb == va + 1
        vc == va + (thetaSegments + 2)
        vd == vc + 1
    IN  IF flipNormals THEN << <<va, vb, vc>>, <<vb, vd, vc>> >>
        ELSE << <<va, vc, vb>>, <<vb, vc, vd>> >>

\* addSurface: the two triangles pushed to indices for the cell (i, j) when
\* the sweep has thetaSegments steps.
cellTriangles(startVertexIndex, i, j, flipNormals, thetaSegments) ==
    LET va == startVertexIndex + i * (thetaSegments + 1) + j
        vb == va + 1
        vc == va + (thetaSegments + 1)
        vd == vc + 1
    IN  IF flipNormals THEN << <<va, vb, vc>>, <<vb, vd, vc>> >>
        ELSE << <<va, vc, vb>>, <<vb, vc, vd>> >>

\* const thetaSegments = CONFIG.segments
surfaceTriangles(startVertexIndex, i, j, flipNormals) ==
    cellTriangles(startVertexIndex, i, j, flipNormals, segments)

\* The position in the buffer of the vertex with the given index, for the
\* surface whose vertices start at startVertexIndex.
surfacePosition(xValues, radiusArray, angleRad, startVertexIndex, index) ==
    LET i == (index - startVertexIndex) \div (segments + 1)
        j == (index - startVertexIndex) % (segments + 1)
    IN  surfaceVertex(xValues[i + 1], radiusArray[i + 1], j, angleRad)

\* addSurface: the two triangles of the cell (i, j), each as the positions
\* of its three vertices in the order of the index buffer.
surfaceCell(xValues, radiusArray, angleRad, i, j, flipNormals) ==
    [t \in 1..2 |->
        [k \in 1..3 |->
            surfacePosition(xValues, radiusArray, angleRad, 0,
                            surfaceTriangles(0, i, j, flipNormals)[t][k])]]

\* addEndCap: the vertex pushed for step j of the ring of a radius.
capVertex(xPos, radius, j, angleRad) ==
    LET theta == ((Num(j) \oslash Num(segments)) \otimes angleRad)
    IN  << xPos, (MathAbs(radius) \otimes Math("cos", theta)),
           (MathAbs(radius) \otimes Math("sin", theta)) >>

\* addEndCap: the two triangles pushed to indices for step j when the sweep
\* has thetaSegments steps.
stepTriangles(startVertexIdx, j, facing, thetaSegments) ==
    LET outerStart == startVertexIdx
        innerStart == startVertexIdx + (thetaSegments + 1)
        vo1 == outerStart + j
        vo2 == outerStart + j + 1
        vi1 == innerStart + j
        vi2 == innerStart + j + 1
    IN  IF facing > 0 THEN << <<vo1, vi1, vo2>>, <<vo2, vi1, vi2>> >>
        ELSE << <<vo1, vo2, vi1>>, <<vo2, vi2, vi1>> >>

\* const thetaSegments = CONFIG.segments
capTriangles(startVertexIdx, j, facing) == stepTriangles(startVertexIdx, j, facing, segments)

\* The position of the vertex of a cap with the given index: the outer ring
\* comes first, the inner ring follows it.
capPosition(xPos, rOuter, rInner, angleRad, startVertexIdx, index) ==
    LET k == index - startVertexIdx
    IN  IF k <= segments THEN capVertex(xPos, rOuter, k, angleRad)
        ELSE capVertex(xPos, rInner, k - (segments + 1), angleRad)

\* addEndCap: the two triangles of step j, each as the positions of its
\* three vertices in the order of the index buffer.
capCell(xPos, rOuter, rInner, angleRad, j, facing) ==
    [t \in 1..2 |->
        [k \in 1..3 |->
            capPosition(xPos, rOuter, rInner, angleRad, 0, capTriangles(0, j, facing)[t][k])]]

\* The two calls of addEndCap: the cap at a with the radii of the first
\* site, facing -1, and the cap at b with those of the last site, facing 1.
latheCaps(a, b, radii) ==
    << [xPos |-> a, rOuter |-> radii[1].rOuter, rInner |-> radii[1].rInner, facing |-> -1],
       [xPos |-> b, rOuter |-> radii[resolution + 1].rOuter,
        rInner |-> radii[resolution + 1].rInner, facing |-> 1] >>

\* The loops of addSurface and addEndCap over lo..hi, each pass giving the
\* entries it pushes.
RECURSIVE pushed(_, _, _)
pushed(pass(_), lo, hi) ==
    IF lo > hi THEN <<>>
    ELSE IF lo = hi THEN pass(lo)
    ELSE LET mid == (lo + hi) \div 2
         IN  pushed(pass, lo, mid) \o pushed(pass, mid + 1, hi)

\* addSurface: the vertices pushed to positions (each named by its surface,
\* site and step), the triangles pushed to indices, and the count returned.
addSurface(name, startVertexIndex, flipNormals, xSegments, thetaSegments) ==
    LET vertexRow(i) == [k \in 1..(thetaSegments + 1) |-> <<name, i, k - 1>>]
        triangleCell(i, j) == cellTriangles(startVertexIndex, i, j, flipNormals, thetaSegments)
        triangleRow(i) == IF thetaSegments = 0 THEN <<>>
                          ELSE pushed(LAMBDA j : triangleCell(i, j), 0, thetaSegments - 1)
    IN  [positions |-> pushed(vertexRow, 0, xSegments),
         indices |-> pushed(triangleRow, 0, xSegments - 1),
         count |-> (xSegments + 1) * (thetaSegments + 1)]

\* addEndCap: the vertices of the outer and of the inner ring, the triangles,
\* and the count returned.
addEndCap(name, startVertexIdx, facing, thetaSegments) ==
    LET ring(which) == [k \in 1..(thetaSegments + 1) |-> <<name, which, k - 1>>]
    IN  [positions |-> ring("outer") \o ring("inner"),
         indices |-> pushed(LAMBDA j : stepTriangles(startVertexIdx, j, facing, thetaSegments),
                            0, thetaSegments - 1),
         count |-> 2 * (thetaSegments + 1)]

\* The smooth branch for xSegments sites and thetaSegments steps: the four
\* blocks (outer surface, inner surface, cap at a, cap at b) with the vertex
\* index each starts at, and the two buffers.
latheBuffers(xSegments, thetaSegments) ==
    LET outer == addSurface("outer", 0, FALSE, xSegments, thetaSegments)
        innerStartIdx == outer.count
        inner == addSurface("inner", innerStartIdx, TRUE, xSegments, thetaSegments)
        capAStart == innerStartIdx + inner.count
        capA == addEndCap("capA", capAStart, -1, thetaSegments)
        capBStart == capAStart + capA.count
        capB == addEndCap("capB", capBStart, 1, thetaSegments)
        blocks == << [start |-> 0, part |-> outer], [start |-> innerStartIdx, part |-> inner],
                     [start |-> capAStart, part |-> capA], [start |-> capBStart, part |-> capB] >>
    IN  [blocks |-> blocks,
         positions |-> outer.positions \o inner.positions \o capA.positions \o capB.positions,
         indices |-> outer.indices \o inner.indices \o capA.indices \o capB.indices,
         vertexCount |-> capBStart + capB.count]

\* One pass of the loop of createDisks for i (0-based): the slab pushed to
\* geometries, or nothing when rOuter < 0.001.
diskSlab(compiledUpper, compiledLower, a, dx, i, angleRad) ==
    LET xMid == (a \oplus (dx \otimes (Num(i) \oplus 500000)))
        yUpper == apply("evalSet", <<compiledUpper, xMid, envelopeMode("createDisks", "upper")>>)
        yLower == apply("evalSet", <<compiledLower, xMid, envelopeMode("createDisks", "lower")>>)
        r == diskRadii(yUpper, yLower)
    IN  IF Lt(r.rOuter, 1000) THEN <<>>
        ELSE << [x |-> (a \oplus (dx \otimes Num(i))),
                 depth |-> (dx \otimes 900000),
                 rOuter |-> r.rOuter,
                 rInner |-> r.rInner,
                 full |-> Ge(angleRad, ((PI \otimes Num(2)) \ominus 10000)),
                 hole |-> Gt(r.rInner, 1000)] >>

RECURSIVE diskSlabs(_, _, _, _, _, _, _)
diskSlabs(compiledUpper, compiledLower, a, dx, lo, hi, angleRad) ==
    IF lo > hi THEN <<>>
    ELSE IF lo = hi THEN apply("diskSlab", <<compiledUpper, compiledLower, a, dx, lo, angleRad>>)
    ELSE LET mid == (lo + hi) \div 2
         IN  diskSlabs(compiledUpper, compiledLower, a, dx, lo, mid, angleRad)
                 \o diskSlabs(compiledUpper, compiledLower, a, dx, mid + 1, hi, angleRad)

\* createDisks: the merged geometry of the slabs, or null when there is none.
createDisks(upper, lower, a, b, n, angleRad) ==
    LET dx == ((b \ominus a) \oslash Num(n))
        compiledUpper == apply("compilePieces", <<upper, 1>>)
        compiledLower == apply("compilePieces", <<lower, 1>>)
        \* with no piece in either group every radius is 0 and every slab skipped
        geometries == IF Len(compiledUpper) + Len(compiledLower) = 0 THEN <<>>
                      ELSE apply("diskSlabs", <<compiledUpper, compiledLower, a, dx, 0, n - 1, angleRad>>)
    IN  IF Len(geometries) = 0 THEN null
        ELSE [kind |-> "disks", slabs |-> geometries]

\* A variant of insertByX that leaves the added point at the end.
appendUnsorted(sorted, p) == Append(sorted, p)

\* points.sort((p1, p2) => p1.x - p2.x) places a point appended to points
\* that are already in order: the sort is stable, so p goes right behind the
\* last point the comparator does not put after it (a NaN difference counts
\* as 0).
insertByX(sorted, p) ==
    LET before == {k \in 1..Len(sorted) : ~Gt((sorted[k].x \ominus p.x), 0)}
        last == IF before = {} THEN 0
                ELSE CHOOSE k \in before : \A j \in before : j <= k
    IN  SubSeq(sorted, 1, last) \o <<p>> \o SubSeq(sorted, last + 1, Len(sorted))

\* uniquePoints: points[k] is kept when it is more than 1e-9 from
\* points[k - 1]; the numbers of the model are multiples of 1e-6.
RECURSIVE uniquePoints(_, _, _)
uniquePoints(points, lo, hi) ==
    IF lo > hi THEN <<>>
    ELSE IF lo = hi
         THEN IF lo = 1 \/ Gt(MathAbs((points[lo].x \ominus points[lo - 1].x)), 0)
              THEN <<points[lo]>> ELSE <<>>
    ELSE LET mid == (lo + hi) \div 2
         IN  uniquePoints(points, lo, mid) \o uniquePoints(points, mid + 1, hi)

\* Step 1 of drawFunctionSegment: the sampled points within [rStart, rEnd].
RECURSIVE sampledPoints(_, _, _, _, _, _)
sampledPoints(func, xValues, rStart, rEnd, lo, hi) ==
    IF lo > hi THEN <<>>
    ELSE IF lo = hi
         THEN LET x == xValues[lo]
              IN  IF Ge(x, rStart) /\ Le(x, rEnd)
                  THEN LET y == apply("runCompiled", <<func, x>>)
                       IN  IF isFinite(y) THEN <<[x |-> x, y |-> y]>> ELSE <<>>
                  ELSE <<>>
    ELSE LET mid == (lo + hi) \div 2
         IN  sampledPoints(func, xValues, rStart, rEnd, lo, mid)
                 \o sampledPoints(func, xValues, rStart, rEnd, mid + 1, hi)

\* Math.max and Math.min of two numbers: NaN if either is NaN.
MathMaxPair(u, v) == IF isNaN(u) \/ isNaN(v) THEN NaN ELSE Max2(u, v)
MathMinPair(u, v) == IF isNaN(u) \/ isNaN(v) THEN NaN ELSE Min2(u, v)

\* drawFunctionSegment: the lines it pushes to profileLines (one or none).
drawFunctionSegment(funcItem, xValues, a, b) ==
    LET \* Step 5: fewer than two points draw nothing
        line(unique) == IF Len(unique) < 2 THEN <<>> ELSE <<[points |-> unique]>>
        \* Steps 2 to 4: the start and the end point join the sampled points
        \* (xValues ascends, so these are in order), then sort and dedupe
        joined(sampled, rStart, yStart, rEnd, yEnd) ==
            LET withStart == IF isFinite(yStart)
                             THEN apply("insertByX", <<sampled, [x |-> rStart, y |-> yStart]>>)
                             ELSE sampled
                points == IF isFinite(yEnd)
                          THEN apply("insertByX", <<withStart, [x |-> rEnd, y |-> yEnd]>>)
                          ELSE withStart
            IN  line(apply("uniquePoints", <<points, 1, Len(points)>>))
        segment(func, rStart, rEnd) ==
            IF Gt(rStart, rEnd) THEN <<>>
            ELSE joined(apply("sampledPoints", <<func, xValues, rStart, rEnd, 1, Len(xValues)>>),
                        rStart, apply("runCompiled", <<func, rStart>>),
                        rEnd, apply("runCompiled", <<func, rEnd>>))
        clamped(compiled) ==
            segment(compiled.func,
                    MathMaxPair(compiled.range[1], MathMinPair(a, b)),
                    MathMinPair(compiled.range[2], MathMaxPair(a, b)))
    IN  clamped(apply("compilePiece", <<funcItem>>))

\* list.forEach(f => drawFunctionSegment(f, xValues)), from the k-th piece on.
RECURSIVE drawGroup(_, _, _, _, _)
drawGroup(list, xValues, a, b, k) ==
    IF k > Len(list) THEN <<>>
    ELSE apply("drawFunctionSegment", <<list[k], xValues, a, b>>) \o drawGroup(list, xValues, a, b, k + 1)

\* The dashed line at a bound, from the lower to the higher of the two
\* envelope values there; null when they are equal.
boundLine(xPos, yO, yI) ==
    IF MathMaxPair(yO, yI) # MathMinPair(yO, yI)
    THEN [kind |-> "line", x |-> xPos, yStart |-> MathMinPair(yO, yI), yEnd |-> MathMaxPair(yO, yI)]
    ELSE null

\* Math.max(...values.map(Math.abs)) over values[lo..hi]
RECURSIVE maxAbs(_, _, _)
maxAbs(values, lo, hi) ==
    IF lo > hi THEN NegInf
    ELSE IF lo = hi THEN MathAbs(values[lo])
    ELSE LET mid == (lo + hi) \div 2
         IN  MathMaxPair(maxAbs(values, lo, mid), maxAbs(values, mid + 1, hi))

\* The objects of the scene that updateSolid adds and removeSolid removes,
\* each with the material that tells its kind: the solid, the overlay, a
\* profile line, a bound line.
solidObject(geometry) == <<"MeshStandardMaterial", geometry>>
overlayObject(geometry) == <<"MeshBasicMaterial", geometry>>
profileObject(line) == <<"LineBasicMaterial", line>>
boundObject(line) == <<"LineDashedMaterial", line>>

\* scene.add(object) for each object of a list, in order.
sceneAdd(scene, objects) == scene \o objects

\* scene.remove(object): the object leaves the children of the scene if it
\* is among them.
sceneRemove(scene, object) ==
    LET at == {k \in 1..Len(scene) : scene[k] = object}
    IN  IF at = {} THEN scene
        ELSE LET k == CHOOSE i \in at : \A j \in at : i <= j
             IN  SubSeq(scene, 1, k - 1) \o SubSeq(scene, k + 1, Len(scene))

\* scene.remove(object) for each object of a list, from the k-th on.
RECURSIVE sceneRemoveAll(_, _, _)
sceneRemoveAll(scene, objects, k) ==
    IF k > Len(objects) THEN scene
    ELSE sceneRemoveAll(sceneRemove(scene, objects[k]), objects, k + 1)

\* The objects that the variables solidMesh, profileLines, boundCircleA,
\* boundCircleB and wireframeMesh refer to, in the order of removeSolid.
referenced(view) ==
    (IF view.solidMesh # null THEN <<solidObject(view.solidMesh)>> ELSE <<>>)
        \o [k \in 1..Len(view.profileLines) |-> profileObject(view.profileLines[k])]
        \o (IF view.boundCircleA # null THEN <<boundObject(view.boundCircleA)>> ELSE <<>>)
        \o (IF view.boundCircleB # null THEN <<boundObject(view.boundCircleB)>> ELSE <<>>)
        \o (IF view.wireframeMesh # null THEN <<overlayObject(view.wireframeMesh)>> ELSE <<>>)

\* A variant of removeSolid that leaves the profile lines in the scene.
removeSolidKeepsLines(view) ==
    [view EXCEPT !.scene = sceneRemoveAll(view.scene,
                                          referenced([view EXCEPT !.profileLines = <<>>]), 1),
                 !.solidMesh = null, !.profileLines = <<>>,
                 !.boundCircleA = null, !.boundCircleB = null,
                 !.wireframeMesh = null]

\* removeSolid: the mesh, the profile lines, the bound lines and the
\* wireframe leave the scene, and the variables that referred to them are
\* cleared.
removeSolid(view) ==
    [view EXCEPT !.scene = sceneRemoveAll(view.scene, referenced(view), 1),
                 !.solidMesh = null, !.profileLines = <<>>,
                 !.boundCircleA = null, !.boundCircleB = null,
                 !.wireframeMesh = null]

\* showError(show)
showError(view, show) == [view EXCEPT !.errorShown = show]

\* parseInt(document.getElementById('slider-disk-count').value) || 20
diskCountOf(sliderDiskCountValue) ==
    IF sliderDiskCountValue = 0 THEN 20 ELSE sliderDiskCountValue

\* Lines 837-970 of updateSolid, reached with a geometry: the mesh, the
\* overlay, the profile lines, the bound lines, the axes, the measurements.
drawScene(view, geometry, upper, lower, a, b, angleDeg, xValues, yOuter, yInner, checked) ==
    LET measured == apply("updateMeasurements", <<upper, lower, a, b, angleDeg>>)
        lines == apply("drawGroup", <<upper, xValues, a, b, 1>>)
                     \o apply("drawGroup", <<lower, xValues, a, b, 1>>)
        lineA == boundLine(a, yOuter[1], yInner[1])
        lineB == boundLine(b, yOuter[resolution + 1], yInner[resolution + 1])
    IN  [view EXCEPT
            !.scene = sceneAdd(view.scene,
                          <<solidObject(geometry)>>
                              \o (IF checked THEN <<overlayObject(geometry)>> ELSE <<>>)
                              \o [k \in 1..Len(lines) |-> profileObject(lines[k])]
                              \o (IF lineA # null THEN <<boundObject(lineA)>> ELSE <<>>)
                              \o (IF lineB # null THEN <<boundObject(lineB)>> ELSE <<>>)),
            !.solidMesh = geometry,
            !.wireframeMesh = IF checked THEN geometry ELSE null,
            !.profileLines = lines,
            !.boundCircleA = IF lineA # null THEN lineA ELSE view.boundCircleA,
            !.boundCircleB = IF lineB # null THEN lineB ELSE view.boundCircleB,
            !.axes = [drawn |-> TRUE,
                      xPosLimit |-> MathMaxPair(MathMaxPair(a, b), 0),
                      xNegLimit |-> MathMinPair(MathMinPair(a, b), 0),
                      rLimit |-> MathMaxPair(apply("maxAbs", <<yOuter, 1, Len(yOuter)>>),
                                            apply("maxAbs", <<yInner, 1, Len(yInner)>>))],
            !.volumeText = measured.volumeText,
            !.areaText = measured.areaText]

\* updateSolid: the page after the update, from the page before it and the
\* values of the controls.
updateSolid(view, upper, lower, inputAValue, inputBValue, sliderAngleValue, renderModeValue, sliderDiskCountValue, checked) ==
    LET bounds == apply("readBounds", <<inputAValue, inputBValue>>)
        angleDeg == sliderAngleValue
        angleRad == (angleDeg * PI + 90) \div 180
        labelled == [view EXCEPT !.valueAngle = angleDeg]
        xValues == apply("displaySites", <<bounds.a, bounds.b, 0, resolution>>)
        yOuter == apply("evaluatePiecewise",
                        <<upper, xValues, envelopeMode("updateSolid", "upper")>>)
        yInner == apply("evaluatePiecewise",
                        <<lower, xValues, envelopeMode("updateSolid", "lower")>>)
    IN  IF hasInvalid(yOuter, yInner)
        THEN removeSolid(showError(labelled, TRUE))
        ELSE LET geometry ==
                     IF renderModeValue = "disks"
                     THEN apply("createDisks", <<upper, lower, bounds.a, bounds.b,
                                      diskCountOf(sliderDiskCountValue), angleRad>>)
                     ELSE apply("latheGeometry", <<yOuter, yInner>>)
                 cleared == removeSolid(showError(labelled, FALSE))
             IN  IF geometry = null THEN cleared
                 ELSE apply("drawScene", <<cleared, geometry, upper, lower, bounds.a, bounds.b,
                                angleDeg, xValues, yOuter, yInner, checked>>)

(***************************************************************************)
(* The functions of the program and the operations of the host, by name.   *)
(***************************************************************************)
invoke(f, args) ==
    CASE f = "runCompiled" -> runCompiled(args[1], args[2])
      [] f = "finiteValues" -> finiteValues(args[1], args[2], args[3])
      [] f = "evalSet" -> evalSet(args[1], args[2], args[3])
      [] f = "measureTerm" -> measureTerm(args[1], args[2], args[3], args[4])
      [] f = "sqrt" -> MathSqrt(args[1])
      [] f = "diskSlab" ->
              diskSlab(args[1], args[2], args[3], args[4], args[5], args[6])
      [] f = "compilePiece" -> compilePiece(args[1])
      [] f = "compileExpr" -> compileExpr(args[1])
      [] f = "preprocessInput" -> preprocessInput(args[1])
      [] f = "ParsePostRest" -> ParsePostRest(args[1], args[2])
      [] f = "ParsePrimary" -> ParsePrimary(args[1], args[2])
      [] f = "ParseExp" -> ParseExp(args[1], args[2])
      [] f = "ParseMulRest" -> ParseMulRest(args[1], args[2])
      [] f = "ParseAddRest" -> ParseAddRest(args[1], args[2])
      [] f = "ParseAssign" -> ParseAssign(args[1], args[2])
      [] f = "ParseUnary" -> ParseUnary(args[1], args[2])
      [] f = "ParseArgs" -> ParseArgs(args[1], args[2], args[3])
      [] f = "sin" -> MathSin(args[1])
      [] f = "cos" -> MathCos(args[1])
      [] f = "tan" -> MathTan(args[1])
      [] f = "abs" -> MathAbs(args[1])
      [] f = "exp" -> MathExp(args[1])
      [] f = "log" -> MathLog(args[1])
      [] f = "log10" -> MathLog10(args[1])
      [] f = "asin" -> MathAsin(args[1])
      [] f = "acos" -> MathAcos(args[1])
      [] f = "atan" -> MathAtan(args[1])
      [] f = "safeEval" -> safeEval(args[1], args[2])
      [] f = "compilePieces" -> compilePieces(args[1], args[2])
      [] f = "evaluatePiecewise" -> evaluatePiecewise(args[1], args[2], args[3])
      [] f = "readBounds" -> readBounds(args[1], args[2])
      [] f = "createDisks" ->
              createDisks(args[1], args[2], args[3], args[4], args[5], args[6])
      [] f = "drawFunctionSegment" ->
              drawFunctionSegment(args[1], args[2], args[3], args[4])
      [] f = "updateMeasurements" ->
              updateMeasurements(args[1], args[2], args[3], args[4], args[5])
      [] f = "updateSolid" ->
              updateSolid(args[1], args[2], args[3], args[4], args[5], args[6],
                 args[7], args[8], args[9])
      [] f = "mapSites" -> mapSites(args[1], args[2], args[3], args[4], args[5])
      [] f = "measureSites" -> measureSites(args[1], args[2], args[3], args[4])
      [] f = "measureSum" -> measureSum(args[1], args[2], args[3], args[4], args[5])
      [] f = "quadrature" -> quadrature(args[1], args[2], args[3], args[4], args[5])
      [] f = "displaySites" -> displaySites(args[1], args[2], args[3], args[4])
      [] f = "latheGeometry" -> latheGeometry(args[1], args[2])
      [] f = "diskSlabs" ->
              diskSlabs(args[1], args[2], args[3], args[4], args[5], args[6], args[7])
      [] f = "sampledPoints" ->
              sampledPoints(args[1], args[2], args[3], args[4], args[5], args[6])
      [] f = "insertByX" -> insertByX(args[1], args[2])
      [] f = "uniquePoints" -> uniquePoints(args[1], args[2], args[3])
      [] f = "drawGroup" -> drawGroup(args[1], args[2], args[3], args[4], args[5])
      [] f = "maxAbs" -> maxAbs(args[1], args[2], args[3])
      [] f = "drawScene" ->
              drawScene(args[1], args[2], args[3], args[4], args[5], args[6],
                 args[7], args[8], args[9], args[10], args[11])

(***************************************************************************)
(* The page as a state machine.  upperFuncs and lowerFuncs are the two     *)
(* lists of pieces; inputA, inputB, sliderAngle, renderMode,               *)
(* sliderDiskCount and wireframeChecked are the values of the controls;    *)
(* hash is the state decoded from window.location.hash (or none) and ready *)
(* tells whether the initialization block has run.                         *)
(* wireframeListener tells whether the change handler of the wireframe     *)
(* checkbox was registered; isSweeping is the sweep animation; view is     *)
(* what the last updates left on the page; events counts the events the    *)
(* page has handled.  call and result belong to the specifications of the  *)
(* functions further down.                                                 *)
(***************************************************************************)
VARIABLES hash, ready, upperFuncs, lowerFuncs, inputA, inputB, sliderAngle,
          renderMode, sliderDiskCount, wireframeChecked, wireframeListener,
          isSweeping, view, events, call, result

vars == <<hash, ready, upperFuncs, lowerFuncs, inputA, inputB, sliderAngle,
          renderMode, sliderDiskCount, wireframeChecked, wireframeListener,
          isSweeping, view, events, call, result>>

\* Events (handler calls and animation frames) explored after the
\* initialization; pieces per group.
MaxEvents == 2
MaxPieces == 2

\* A formula that has no finite value at any x.
NonFiniteText == <<"s", "q", "r", "t", "(", "-", "1", "-", "x", "^", "2", ")">>

\* The edits explored: the texts typed into the formula input of a group,
\* into the start or end input of a group, and into a bound input; the
\* values the sliders and the mode select are set to.
Groups == { "upper", "lower" }
ExprEdits == { <<"upper", NonFiniteText>>, <<"lower", <<"0">>>> }
RangeEdits == { <<"upper", "rangeEnd", <<"1">>>> }
BoundEdits == { <<"b", <<"2">>>> }
Angles == { 180 }
RenderModes == { "disks" }
DiskCounts == { 4 }

\* The text of the volume and area labels in the page's markup.
markupText == -1

\* The page before the first update.
markup ==
    [errorShown |-> FALSE, scene |-> <<>>, solidMesh |-> null, wireframeMesh |-> null,
     profileLines |-> <<>>, boundCircleA |-> null, boundCircleB |-> null,
     axes |-> [drawn |-> FALSE, xPosLimit |-> 0, xNegLimit |-> 0, rLimit |-> 0],
     valueAngle |-> 0, volumeText |-> markupText, areaText |-> markupText]

\* let upperFuncs = [...], let lowerFuncs = [...]
defaultUpper == <<Piece(<<"-", "x", "+", "3">>, <<>>, <<>>)>>
defaultLower == <<Piece(<<"-", "s", "q", "r", "t", "(", "-", "x", "+", "3", ")">>, <<>>, <<>>)>>

\* The page after the update a handler ends with.
Updated ==
    view' = apply("updateSolid", <<view, upperFuncs', lowerFuncs', inputA', inputB', sliderAngle',
                        renderMode', sliderDiskCount', wireframeChecked'>>)

\* No use of call and result by the page.
Idle == call = <<>> /\ result = <<>>

\* The script has been read up to the initialization block: the lists hold
\* their default pieces and nothing has been drawn.  The markup is not part
\* of the source; the controls start at values their handlers can set.
Constructed ==
    /\ ready = FALSE
    /\ upperFuncs = defaultUpper
    /\ lowerFuncs = defaultLower
    /\ inputA = <<"0">>
    /\ inputB = <<"3">>
    /\ sliderAngle = 360
    /\ renderMode = "smooth"
    /\ sliderDiskCount = 20
    /\ wireframeChecked = FALSE
    /\ wireframeListener = FALSE
    /\ isSweeping = FALSE
    /\ view = markup
    /\ events = 0

Loading == Constructed /\ Idle

\* The page is opened without a hash, or with the hash of a shared link:
\* the state that JSON.parse returns for it.
noHash == [kind |-> "none"]
SharedLinks ==
    { [kind |-> "state",
       upper |-> <<Piece(<<"0">>, <<>>, <<>>)>>,
       lower |-> <<Piece(<<"2">>, <<>>, <<>>)>>,
       a |-> <<"0">>, b |-> <<"3">>, angle |-> 180],
      [kind |-> "state",
       upper |-> <<>>,
       lower |-> <<Piece(<<"2">>, <<>>, <<>>)>>,
       a |-> <<"0">>, b |-> <<"3">>, angle |-> 180] }

Init == hash \in {noHash} \cup SharedLinks /\ Loading

\* The list of a group, and the two lists with the list of a group replaced.
listOf(type) == IF type = "upper" THEN upperFuncs ELSE lowerFuncs

SetList(type, list) ==
    /\ upperFuncs' = IF type = "upper" THEN list ELSE upperFuncs
    /\ lowerFuncs' = IF type = "upper" THEN lowerFuncs ELSE list

\* One more event handled by the page.
Handled == ready /\ events < MaxEvents /\ events' = events + 1

\* Two calls of updateSolid in a row on the same controls.
updatedTwice(shown, upper, lower, a, b, angle, mode, count, checked) ==
    apply("updateSolid", <<apply("updateSolid", <<shown, upper, lower, a, b, angle,
                                                  mode, count, checked>>),
                           upper, lower, a, b, angle, mode, count, checked>>)

\* The calls of updateSolid that follow the first one in the initialization:
\* without a hash the one of line 1448 and the one of line 1506; with a hash
\* the two of restoreState (the dispatched 'change', line 1570) and the one
\* of line 1506.
initialized(shown, restored, upper, lower, a, b, angle, mode, count, checked) ==
    IF restored
    THEN apply("updateSolid", <<updatedTwice(shown, upper, lower, a, b, angle, mode,
                                             count, checked),
                                upper, lower, a, b, angle, mode, count, checked>>)
    ELSE updatedTwice(shown, upper, lower, a, b, angle, mode, count, checked)

\* The initialization block (lines 1497-1510).  setupEventListeners calls
\* toggleColorModes(), which updates the solid; without a hash it updates it
\* again and registers the wireframe handler, with a hash it calls
\* restoreState, which fills the lists and the controls from the link and
\* updates the solid twice; the block ends with one more update.
initialize ==
    /\ ~ready
    /\ ready' = TRUE
    /\ wireframeListener' = (hash = noHash)
    /\ upperFuncs' = IF hash = noHash THEN upperFuncs ELSE hash.upper
    /\ lowerFuncs' = IF hash = noHash THEN lowerFuncs ELSE hash.lower
    /\ inputA' = IF hash = noHash THEN inputA ELSE hash.a
    /\ inputB' = IF hash = noHash THEN inputB ELSE hash.b
    /\ sliderAngle' = IF hash = noHash THEN sliderAngle
                      ELSE IF hash.angle = 0 THEN 360 ELSE hash.angle
    /\ view' = initialized(apply("updateSolid", <<view, upperFuncs, lowerFuncs, inputA, inputB,
                                                  sliderAngle, renderMode, sliderDiskCount,
                                                  wireframeChecked>>),
                           hash # noHash,
                           upperFuncs', lowerFuncs', inputA', inputB', sliderAngle',
                           renderMode, sliderDiskCount, wireframeChecked)
    /\ UNCHANGED <<hash, renderMode, sliderDiskCount, wireframeChecked, isSweeping,
                   events, call, result>>

\* 'change' (or Enter) on the formula input of a piece: updateModel, updateSolid.
ExprChange(type, index, text) ==
    /\ Handled
    /\ index \in 1..Len(listOf(type))
    /\ text # listOf(type)[index].expr
    /\ SetList(type, [listOf(type) EXCEPT ![index].expr = text])
    /\ UNCHANGED <<inputA, inputB, sliderAngle, renderMode, sliderDiskCount,
                   wireframeChecked, wireframeListener, isSweeping, hash, ready,
                   call, result>>
    /\ Updated

\* 'input' on the start or end input of a piece: updateModel, updateSolid.
RangeInput(type, index, end, text) ==
    /\ Handled
    /\ index \in 1..Len(listOf(type))
    /\ text # listOf(type)[index][end]
    /\ SetList(type, [listOf(type) EXCEPT ![index][end] = text])
    /\ UNCHANGED <<inputA, inputB, sliderAngle, renderMode, sliderDiskCount,
                   wireframeChecked, wireframeListener, isSweeping, hash, ready,
                   call, result>>
    /\ Updated

\* list.splice(index, 1)
splice(list, index) == SubSeq(list, 1, index - 1) \o SubSeq(list, index + 1, Len(list))

\* 'click' on the remove button of a piece: the last piece of a group stays
\* (an alert), any other is removed and the solid updated.
RemovePiece(type, index) ==
    /\ Handled
    /\ index \in 1..Len(listOf(type))
    /\ UNCHANGED <<inputA, inputB, sliderAngle, renderMode, sliderDiskCount,
                   wireframeChecked, wireframeListener, isSweeping, hash, ready,
                   call, result>>
    /\ IF Len(listOf(type)) > 1
       THEN SetList(type, splice(listOf(type), index)) /\ Updated
       ELSE UNCHANGED <<upperFuncs, lowerFuncs, view>>

\* addNewFunction(type)
addNewFunction(type) ==
    /\ Handled
    /\ Len(listOf(type)) < MaxPieces
    /\ SetList(type, Append(listOf(type), Piece(<<"0">>, <<>>, <<>>)))
    /\ UNCHANGED <<inputA, inputB, sliderAngle, renderMode, sliderDiskCount,
                   wireframeChecked, wireframeListener, isSweeping, hash, ready,
                   call, result>>
    /\ Updated

\* 'change' on inputA or inputB: globalUpdate
BoundChange(which, text) ==
    /\ Handled
    /\ text # (IF which = "a" THEN inputA ELSE inputB)
    /\ inputA' = IF which = "a" THEN text ELSE inputA
    /\ inputB' = IF which = "a" THEN inputB ELSE text
    /\ UNCHANGED <<upperFuncs, lowerFuncs, sliderAngle, renderMode, sliderDiskCount,
                   wireframeChecked, wireframeListener, isSweeping, hash, ready,
                   call, result>>
    /\ Updated

\* 'input' on sliderAngle: globalUpdate, then the listener that ends a sweep.
AngleInput(value) ==
    /\ Handled
    /\ value # sliderAngle
    /\ sliderAngle' = value
    /\ isSweeping' = FALSE
    /\ UNCHANGED <<upperFuncs, lowerFuncs, inputA, inputB, renderMode, sliderDiskCount,
                   wireframeChecked, wireframeListener, hash, ready, call, result>>
    /\ Updated

\* 'change' on the render-mode select
RenderModeChange(mode) ==
    /\ Handled
    /\ mode # renderMode
    /\ renderMode' = mode
    /\ UNCHANGED <<upperFuncs, lowerFuncs, inputA, inputB, sliderAngle, sliderDiskCount,
                   wireframeChecked, wireframeListener, isSweeping, hash, ready,
                   call, result>>
    /\ Updated

\* 'input' on the disk-count slider
DiskCountInput(value) ==
    /\ Handled
    /\ value # sliderDiskCount
    /\ sliderDiskCount' = value
    /\ UNCHANGED <<upperFuncs, lowerFuncs, inputA, inputB, sliderAngle, renderMode,
                   wireframeChecked, wireframeListener, isSweeping, hash, ready,
                   call, result>>
    /\ Updated

\* 'change' on the wireframe checkbox: updateSolid where it was registered.
WireframeChange ==
    /\ Handled
    /\ wireframeChecked' = ~wireframeChecked
    /\ UNCHANGED <<upperFuncs, lowerFuncs, inputA, inputB, sliderAngle, renderMode,
                   sliderDiskCount, wireframeListener, isSweeping, hash, ready,
                   call, result>>
    /\ IF wireframeListener THEN Updated ELSE UNCHANGED view

\* 'click' on the sweep button
SweepClick ==
    /\ Handled
    /\ isSweeping' = ~isSweeping
    /\ UNCHANGED <<upperFuncs, lowerFuncs, inputA, inputB, renderMode, sliderDiskCount,
                   wireframeChecked, wireframeListener, hash, ready, call, result>>
    /\ IF isSweeping'
       THEN sliderAngle' = 0 /\ Updated
       ELSE UNCHANGED <<sliderAngle, view>>

\* One frame of animate() during a sweep
animate ==
    /\ isSweeping
    /\ Handled
    /\ sliderAngle' = IF sliderAngle + 2 >= 360 THEN 0 ELSE sliderAngle + 2
    /\ UNCHANGED <<upperFuncs, lowerFuncs, inputA, inputB, renderMode, sliderDiskCount,
                   wireframeChecked, wireframeListener, isSweeping, hash, ready,
                   call, result>>
    /\ Updated

Next ==
    \/ initialize
    \/ \E edit \in ExprEdits, index \in 1..MaxPieces : ExprChange(edit[1], index, edit[2])
    \/ \E edit \in RangeEdits, index \in 1..MaxPieces :
          RangeInput(edit[1], index, edit[2], edit[3])
    \/ \E type \in Groups, index \in 1..MaxPieces : RemovePiece(type, index)
    \/ \E type \in Groups : addNewFunction(type)
    \/ \E edit \in BoundEdits : BoundChange(edit[1], edit[2])
    \/ \E value \in Angles : AngleInput(value)
    \/ \E mode \in RenderModes : RenderModeChange(mode)
    \/ \E value \in DiskCounts : DiskCountInput(value)
    \/ WireframeChange
    \/ SweepClick
    \/ animate

Spec == Init /\ [][Next]_vars

(***************************************************************************)
(* The functions of the program applied to inputs drawn from bounded sets: *)
(* a second specification.  call holds one call, [fn, ...arguments], and   *)
(* result what the function returned; the page itself stays as constructed.*)
(***************************************************************************)
\* The x of a call: 0, 0.5, 1 and 2.
Sites == { 0, 500000, 1000000, 2000000 }

\* Formulas of one whitelisted identifier each, with the host operation the
\* identifier stands for (Math.log is the natural and Math.log10 the base-10
\* logarithm).
IdentifierFormulas ==
    { <<<<"s", "i", "n", "(", "x", ")">>, "sin">>, <<<<"c", "o", "s", "(", "x", ")">>, "cos">>, <<<<"t", "a", "n", "(", "x", ")">>, "tan">>,
      <<<<"s", "q", "r", "t", "(", "x", ")">>, "sqrt">>, <<<<"a", "b", "s", "(", "x", ")">>, "abs">>, <<<<"e", "x", "p", "(", "x", ")">>, "exp">>,
      <<<<"l", "n", "(", "x", ")">>, "log">>, <<<<"l", "o", "g", "(", "x", ")">>, "log10">>,
      <<<<"a", "s", "i", "n", "(", "x", ")">>, "asin">>, <<<<"a", "c", "o", "s", "(", "x", ")">>, "acos">>, <<<<"a", "t", "a", "n", "(", "x", ")">>, "atan">>,
      <<<<"a", "r", "c", "s", "i", "n", "(", "x", ")">>, "asin">>, <<<<"a", "r", "c", "c", "o", "s", "(", "x", ")">>, "acos">>, <<<<"a", "r", "c", "t", "a", "n", "(", "x", ")">>, "atan">> }

\* Formulas that use something outside the whitelist: another identifier, a
\* call of it, a property of x, an assignment to x and one to a new name.
ForeignFormulas == { <<"y">>, <<"y", "(", "x", ")">>, <<"x", ".", "y">>, <<"x", "=", "2">>, <<"y", "=", "2">> }

\* Formulas with a logarithm, and the value of each.
LogFormulas ==
    { <<<<"l", "o", "g", "3", "(", "9", ")">>, 2 * SCALE>>, <<<<"l", "o", "g", "(", "1", "0", "0", ")">>, 2 * SCALE>>, <<<<"l", "o", "g", "1", "0", "(", "1", "0", "0", ")">>, 2 * SCALE>>,
      <<<<"1", "+", "l", "o", "g", "2", "(", "8", ")">>, 4 * SCALE>>, <<<<"(", "l", "o", "g", "2", "(", "8", ")", ")">>, 3 * SCALE>>, <<<<"2", "*", "l", "o", "g", "3", "(", "9", ")">>, 4 * SCALE>>,
      <<<<"2", "l", "o", "g", "3", "(", "9", ")">>, 4 * SCALE>> }

\* Formulas with an implicit multiplication, and each with its '*' written.
StarFormulas ==
    { <<<<"2", "s", "i", "n", "(", "x", ")">>, <<"2", "*", "s", "i", "n", "(", "x", ")">>>>, <<<<"2", "x">>, <<"2", "*", "x">>>>, <<<<"2", "(", "x", "+", "1", ")">>, <<"2", "*", "(", "x", "+", "1", ")">>>>,
      <<<<"(", "x", "+", "1", ")", "2">>, <<"(", "x", "+", "1", ")", "*", "2">>>>, <<<<"(", "x", "+", "1", ")", "x">>, <<"(", "x", "+", "1", ")", "*", "x">>>>, <<<<"2", "l", "o", "g", "3", "(", "9", ")">>, <<"2", "*", "l", "o", "g", "3", "(", "9", ")">>>> }

\* Formulas whose evaluation fails: malformed grammar, an undefined
\* identifier, a result that is a function or undefined, an argument outside
\* the domain of the function.
FailingFormulas == { <<"2", "+">>, <<"(", "x">>, <<"x", ")">>, <<"y">>, <<"y", "(", "x", ")">>, <<"s", "i", "n">>, <<"x", ".", "y">>, <<"s", "q", "r", "t", "(", "-", "1", ")">>, <<"a", "s", "i", "n", "(", "2", ")">> }

\* Formulas whose value is an infinity.
InfiniteFormulas == { <<"1", "/", "0">>, <<"l", "n", "(", "0", ")">> }

\* The empty formula and formulas of white space only.
BlankFormulas == { <<>>, <<" ">>, <<" ", " ">> }

Formulas ==
    { pair[1] : pair \in IdentifierFormulas } \cup ForeignFormulas
        \cup FailingFormulas \cup InfiniteFormulas \cup BlankFormulas
        \cup { pair[1] : pair \in LogFormulas }
        \cup { pair[1] : pair \in StarFormulas } \cup { pair[2] : pair \in StarFormulas }

\* Lists of pieces: one piece on [0,1]; one piece that is nowhere finite; two
\* overlapping pieces; a finite piece with one that is nowhere finite; two
\* pieces on [0,1] and [1,2]; three overlapping pieces; and lists with a
\* piece whose domain is invalid (start > end, or a bound that is no number).
PieceLists ==
    { <<Piece(<<"x", "+", "1">>, <<"0">>, <<"1">>)>>,
      <<Piece(NonFiniteText, <<>>, <<>>)>>,
      <<Piece(<<"x">>, <<>>, <<>>), Piece(<<"1">>, <<>>, <<>>)>>,
      <<Piece(<<"-", "1">>, <<>>, <<>>), Piece(NonFiniteText, <<>>, <<>>)>>,
      <<Piece(<<"-", "x">>, <<"0">>, <<"1">>), Piece(<<"x", "-", "3">>, <<"1">>, <<"2">>)>>,
      <<Piece(<<"x">>, <<>>, <<>>), Piece(<<"1">>, <<>>, <<>>), Piece(<<"2", "-", "x">>, <<>>, <<>>)>>,
      <<Piece(<<"1">>, <<"2">>, <<"1">>)>>,
      <<Piece(<<"x", "+", "1">>, <<>>, <<>>), Piece(<<"5">>, <<"2">>, <<"1">>)>>,
      <<Piece(<<"x", "+", "1">>, <<>>, <<>>), Piece(<<"5">>, <<"y">>, <<>>)>>,
      <<Piece(<<"5">>, <<>>, <<"y">>)>>,
      <<Piece(<<"1", "/", "x">>, <<>>, <<>>)>>,
      <<Piece(<<"x">>, <<>>, <<>>), Piece(<<"1", "/", "x">>, <<>>, <<>>)>> }

\* The sites of an envelope call, and the sites that infinite bounds give.
EnvelopeSites == << 0, 500000, 1000000, 2000000 >>
NonFiniteSites == << NegInf, PosInf, NaN, -1000000 >>

\* The values a boundary takes in a radii call: halves, so that the product
\* the code tests is exact in the fixed point as it is in a double.
Values == { -2000000, -500000, 0, 500000, 2000000 }

\* The measurements called for: constant boundaries (of one sign, of opposite
\* signs, equal) at four angles, a step, and the line f(x) = x.
Measurements ==
    { [upper |-> <<Piece(<<"2">>, <<>>, <<>>)>>, lower |-> <<Piece(<<"0">>, <<>>, <<>>)>>,
       a |-> 0, b |-> 3 * SCALE, angleDeg |-> angle] : angle \in { 0, 90, 180, 360 } }
    \cup
    { [upper |-> <<Piece(<<"2">>, <<>>, <<>>)>>, lower |-> <<Piece(<<"-", "1">>, <<>>, <<>>)>>,
       a |-> 0, b |-> 3 * SCALE, angleDeg |-> angle] : angle \in { 180, 360 } }
    \cup
    { [upper |-> <<Piece(<<"2">>, <<>>, <<>>)>>, lower |-> <<Piece(<<"1">>, <<>>, <<>>)>>,
       a |-> SCALE, b |-> 2 * SCALE, angleDeg |-> 360],
      [upper |-> <<Piece(<<"2">>, <<"0">>, <<"1">>)>>, lower |-> <<Piece(<<"0">>, <<>>, <<>>)>>,
       a |-> 0, b |-> 2 * SCALE, angleDeg |-> 360],
      [upper |-> <<Piece(<<"x">>, <<>>, <<>>)>>, lower |-> <<Piece(<<"0">>, <<>>, <<>>)>>,
       a |-> 0, b |-> 2 * SCALE, angleDeg |-> 360],
      [upper |-> <<Piece(<<"x">>, <<>>, <<>>), Piece(<<"1">>, <<>>, <<>>)>>,
       lower |-> <<Piece(<<"0">>, <<>>, <<>>)>>,
       a |-> 0, b |-> 2 * SCALE, angleDeg |-> 360] }

\* The texts of a bound: empty, blank, numbers, a text that is no number,
\* and an infinity.
BoundTexts == { <<>>, <<" ">>, <<"0">>, <<"1">>, <<"5">>, <<"1", ".", "0", "0", "5">>, <<"y">>, <<"1", "/", "0">> }

\* The formulas preprocessInput is called with.
PreprocessFormulas == BlankFormulas \cup { <<"2", "X">>, <<"|", "x", "|", "^", "2">>, <<"a", "r", "c", "s", "i", "n", "(", "x", ")">> }

\* The slabs called for: a constant boundary; one that is 0 on half of
\* [a,b]; boundaries of opposite signs under half a turn.
DiskCalls ==
    { [upper |-> <<Piece(<<"2">>, <<>>, <<>>)>>, lower |-> <<Piece(<<"0">>, <<>>, <<>>)>>,
       a |-> 0, b |-> 2 * SCALE, n |-> 4, angleRad |-> TwoPI],
      [upper |-> <<Piece(<<"1">>, <<"0">>, <<"1">>)>>, lower |-> <<Piece(<<"0">>, <<>>, <<>>)>>,
       a |-> 0, b |-> 2 * SCALE, n |-> 4, angleRad |-> TwoPI],
      [upper |-> <<Piece(<<"x">>, <<>>, <<>>)>>, lower |-> <<Piece(<<"-", "1">>, <<>>, <<>>)>>,
       a |-> 0, b |-> 2 * SCALE, n |-> 4, angleRad |-> PI] }

\* The updates called for, each on the page as loaded: the default pieces
\* with the bounds one way and the other, with bounds that are no numbers,
\* with the default bounds; and a list with pieces of invalid domain.
UpdateCalls ==
    { [upper |-> defaultUpper, lower |-> defaultLower, inputA |-> bounds[1],
       inputB |-> bounds[2], sliderAngle |-> 360, renderMode |-> "smooth",
       sliderDiskCount |-> 20, checked |-> FALSE] :
          bounds \in { <<<<"5">>, <<"1">>>>, <<<<"1">>, <<"5">>>>, <<<<" ">>, <<"y">>>>, <<<<"0">>, <<"3">>>>,
                       <<<<"1", "/", "0">>, <<"1", "/", "0">>>> } }
    \cup
    { [upper |-> <<Piece(<<"x", "+", "1">>, <<>>, <<>>), Piece(<<"5">>, <<"2">>, <<"1">>), Piece(<<"5">>, <<"y">>, <<>>)>>,
       lower |-> <<Piece(<<"0">>, <<>>, <<>>)>>, inputA |-> <<"0">>, inputB |-> <<"3">>,
       sliderAngle |-> 360, renderMode |-> "smooth", sliderDiskCount |-> 20,
       checked |-> FALSE] }

\* The cells of a surface called for: two sites with their radii (equal,
\* growing, shrinking), a step of the sweep, a full or a half turn.
SurfaceCells ==
    { [xValues |-> xs, radiusArray |-> rs, angleRad |-> turn, j |-> j] :
          xs \in { <<0, 30000>>, <<SCALE, 1500000>> },
          rs \in { <<SCALE, SCALE>>, <<SCALE, 2 * SCALE>>, <<2 * SCALE, 500000>> },
          turn \in { TwoPI, PI },
          j \in { 0, 20, 40, segments - 1 } }

\* The steps of a cap called for: a washer, a full disk and a ring of no
\* width, at either end, under a full or a half turn.
CapCells ==
    { [xPos |-> xPos, rOuter |-> r[1], rInner |-> r[2], angleRad |-> turn, j |-> j] :
          xPos \in { 0, 3 * SCALE },
          r \in { <<2 * SCALE, SCALE>>, <<SCALE, 0>>, <<SCALE, SCALE>> },
          turn \in { TwoPI, PI },
          j \in { 0, 20, 40, segments - 1 } }

\* The profile lines called for: pieces whose domain ends between two
\* display sites, at a display site, in one point, or is empty; a piece
\* that stops being a number inside [a, b], one that is a number nowhere,
\* one that is infinite at a site; each on the bounds [0, 3] and [1, 5].
ProfilePieces ==
    { Piece(<<"x">>, <<"1", ".", "0", "0", "5">>, <<"2">>), Piece(<<"x", "+", "1">>, <<>>, <<>>), Piece(<<"2", "-", "x">>, <<"1", ".", "5">>, <<>>),
      Piece(<<"-", "s", "q", "r", "t", "(", "-", "x", "+", "3", ")">>, <<>>, <<>>), Piece(<<"1">>, <<"2">>, <<"1">>), Piece(<<"5">>, <<"2">>, <<"2">>),
      Piece(<<"s", "q", "r", "t", "(", "-", "1", "-", "x", "^", "2", ")">>, <<>>, <<>>), Piece(<<"1", "/", "(", "x", "-", "3", ")">>, <<"2">>, <<"4">>),
      Piece(<<"x">>, <<"y">>, <<>>) }
ProfileBounds == { <<0, 3 * SCALE>>, <<SCALE, 5 * SCALE>> }

\* The numbers of sites and of steps a lathe is built for: the least ones and
\* those of CONFIG.
MeshSizes == { <<1, 1>>, <<1, 3>>, <<2, 1>>, <<3, 2>>, <<resolution, segments>> }

Calls ==
    { [fn |-> "latheBuffers", xSegments |-> size[1], thetaSegments |-> size[2]] :
          size \in MeshSizes }
    \cup
    { [fn |-> "drawFunctionSegment", funcItem |-> funcItem, a |-> bounds[1],
       b |-> bounds[2]] : funcItem \in ProfilePieces, bounds \in ProfileBounds }
    \cup
    { [fn |-> "addEndCap", xPos |-> c.xPos, rOuter |-> c.rOuter, rInner |-> c.rInner,
       angleRad |-> c.angleRad, j |-> c.j, facing |-> facing] :
          c \in CapCells, facing \in { -1, 1 } }
    \cup
    { [fn |-> "addSurface", xValues |-> c.xValues, radiusArray |-> c.radiusArray,
       angleRad |-> c.angleRad, j |-> c.j, flipNormals |-> flipNormals] :
          c \in SurfaceCells, flipNormals \in BOOLEAN }
    \cup
    { [fn |-> "safeEval", expr |-> expr, x |-> x] : expr \in Formulas, x \in Sites }
    \cup
    { [fn |-> "evaluatePiecewise", caller |-> caller, group |-> group,
       funcsList |-> funcsList, xValues |-> xValues] :
          caller \in { "updateSolid", "updateMeasurements" }, group \in Groups,
          funcsList \in PieceLists, xValues \in { EnvelopeSites, NonFiniteSites } }
    \cup
    { [fn |-> "evalSet", caller |-> "createDisks", group |-> group,
       funcsList |-> funcsList, xValues |-> EnvelopeSites] :
          group \in Groups, funcsList \in PieceLists }
    \cup
    { [fn |-> fn, upper |-> upper, lower |-> lower] :
          fn \in { "latheRadii", "diskRadii", "measureRadii" },
          upper \in Values, lower \in Values }
    \cup
    { [fn |-> "updateMeasurements", upper |-> m.upper, lower |-> m.lower,
       a |-> m.a, b |-> m.b, angleDeg |-> m.angleDeg] : m \in Measurements }
    \cup
    { [fn |-> "preprocessInput", expr |-> expr] : expr \in PreprocessFormulas }
    \cup
    { [fn |-> "readBounds", inputA |-> inputAValue, inputB |-> inputBValue] :
          inputAValue \in BoundTexts, inputBValue \in BoundTexts }
    \cup
    { [fn |-> "createDisks", upper |-> d.upper, lower |-> d.lower, a |-> d.a, b |-> d.b,
       n |-> d.n, angleRad |-> d.angleRad] : d \in DiskCalls }
    \cup
    { [fn |-> "updateSolid", upper |-> u.upper, lower |-> u.lower, inputA |-> u.inputA,
       inputB |-> u.inputB, sliderAngle |-> u.sliderAngle, renderMode |-> u.renderMode,
       sliderDiskCount |-> u.sliderDiskCount, checked |-> u.checked] : u \in UpdateCalls }

InitCalls == hash = noHash /\ Constructed /\ call \in { <<c>> : c \in Calls } /\ result = <<>>

\* The call made, and the function returns.
Calling(fn) == call # <<>> /\ call[1].fn = fn /\ result = <<>>
Returns(value) ==
    /\ result' = <<value>>
    /\ UNCHANGED <<hash, ready, upperFuncs, lowerFuncs, inputA, inputB, sliderAngle,
                   renderMode, sliderDiskCount, wireframeChecked, wireframeListener,
                   isSweeping, view, events, call>>

\* safeEval(preprocessInput(expr), x), as every caller of safeEval writes it.
CallSafeEval ==
    /\ Calling("safeEval")
    /\ Returns(apply("safeEval", <<apply("preprocessInput", <<call[1].expr>>), call[1].x>>))

\* The envelope of a list as a caller samples it for a group:
\* evaluatePiecewise(funcs, xValues, mode) in updateSolid and in
\* updateMeasurements, evalSet(compiled, x, mode) at each site in createDisks.
sampled(caller, group, funcsList, xValues) ==
    IF caller = "createDisks"
    THEN LET compiled == apply("compilePieces", <<funcsList, 1>>)
         IN  [k \in 1..Len(xValues) |->
                 apply("evalSet", <<compiled, xValues[k], envelopeMode(caller, group)>>)]
    ELSE apply("evaluatePiecewise", <<funcsList, xValues, envelopeMode(caller, group)>>)

CallEvaluatePiecewise ==
    /\ Calling("evaluatePiecewise")
    /\ Returns(sampled(call[1].caller, call[1].group, call[1].funcsList, call[1].xValues))

CallEvalSet ==
    /\ Calling("evalSet")
    /\ Returns(sampled(call[1].caller, call[1].group, call[1].funcsList, call[1].xValues))

CallLatheRadii ==
    /\ Calling("latheRadii")
    /\ Returns(latheRadii(call[1].upper, call[1].lower))

CallDiskRadii ==
    /\ Calling("diskRadii")
    /\ Returns(diskRadii(call[1].upper, call[1].lower))

CallMeasureRadii ==
    /\ Calling("measureRadii")
    /\ Returns(measureRadii(call[1].upper, call[1].lower))

CallUpdateMeasurements ==
    /\ Calling("updateMeasurements")
    /\ Returns(apply("updateMeasurements",
                     <<call[1].upper, call[1].lower, call[1].a, call[1].b,
                       call[1].angleDeg>>))

CallPreprocessInput ==
    /\ Calling("preprocessInput")
    /\ Returns(apply("preprocessInput", <<call[1].expr>>))

CallReadBounds ==
    /\ Calling("readBounds")
    /\ Returns(apply("readBounds", <<call[1].inputA, call[1].inputB>>))

CallCreateDisks ==
    /\ Calling("createDisks")
    /\ Returns(apply("createDisks", <<call[1].upper, call[1].lower, call[1].a, call[1].b,
                                      call[1].n, call[1].angleRad>>))

\* updateSolid() on the page as loaded, with the lists and the controls of
\* the call: the page after the update.
updateOf(c) ==
    apply("updateSolid", <<markup, c.upper, c.lower, c.inputA, c.inputB, c.sliderAngle,
                           c.renderMode, c.sliderDiskCount, c.checked>>)

CallUpdateSolid ==
    /\ Calling("updateSolid")
    /\ Returns(updateOf(call[1]))

\* addSurface(radiusArray, 0, flipNormals) over two sites: the triangles of
\* the cell (0, j).
CallAddSurface ==
    /\ Calling("addSurface")
    /\ Returns(surfaceCell(call[1].xValues, call[1].radiusArray, call[1].angleRad,
                           0, call[1].j, call[1].flipNormals))

\* addEndCap(xPos, rOuter, rInner, 0, facing): the triangles of step j.
CallAddEndCap ==
    /\ Calling("addEndCap")
    /\ Returns(capCell(call[1].xPos, call[1].rOuter, call[1].rInner, call[1].angleRad,
                       call[1].j, call[1].facing))

\* drawFunctionSegment(funcItem, xValues) in an update with the bounds a and
\* b: the lines it pushes to profileLines.
CallDrawFunctionSegment ==
    /\ Calling("drawFunctionSegment")
    /\ Returns(apply("drawFunctionSegment",
                     <<call[1].funcItem,
                       apply("displaySites", <<call[1].a, call[1].b, 0, resolution>>),
                       call[1].a, call[1].b>>))

\* The smooth branch of updateSolid with CONFIG.resolution = xSegments and
\* CONFIG.segments = thetaSegments: the buffers of the lathe.
CallLatheBuffers ==
    /\ Calling("latheBuffers")
    /\ Returns(latheBuffers(call[1].xSegments, call[1].thetaSegments))

NextCalls ==
    \/ CallSafeEval
    \/ CallLatheBuffers
    \/ CallDrawFunctionSegment
    \/ CallAddEndCap
    \/ CallAddSurface
    \/ CallPreprocessInput
    \/ CallReadBounds
    \/ CallCreateDisks
    \/ CallUpdateSolid
    \/ CallEvaluatePiecewise
    \/ CallEvalSet
    \/ CallLatheRadii
    \/ CallDiskRadii
    \/ CallMeasureRadii
    \/ CallUpdateMeasurements

SpecCalls == InitCalls /\ [][NextCalls]_vars

(***************************************************************************)
(* Properties of the page.                                                 *)
(***************************************************************************)
\* The measurements of the inputs the page holds: what updateMeasurements
\* returns for the lists, the bounds read from the two inputs and the angle.
measuredNow(upper, lower, inputAValue, inputBValue, angleDeg) ==
    LET measure(bounds) ==
            apply("updateMeasurements", <<upper, lower, bounds.a, bounds.b, angleDeg>>)
    IN  measure(apply("readBounds", <<inputAValue, inputBValue>>))

\* A piece with the formula sqrt(-1-x^2) and no range of its own: it is
\* active and non-finite at every display site of every [a, b].
NonFinitePiece == Piece(NonFiniteText, <<>>, <<>>)

\* C1: when a piece of a boundary is non-finite at the display sites (the
\* formula sqrt(-1-x^2), any bounds), the update raises the invalid flag and
\* leaves no mesh and no profile line on the page.
C1_InvalidFlagRaised ==
    (ready /\ \E k \in 1..Len(upperFuncs) : upperFuncs[k] = NonFinitePiece)
        => (view.errorShown /\ view.solidMesh = null /\ view.profileLines = <<>>)

\* C6: after every update the volume and the area shown are those that
\* updateMeasurements computes for the inputs the page holds, in both render
\* modes and also when the update produced no mesh.
C6_MeasurementsCurrent ==
    ready =>
        \A measured \in {measuredNow(upperFuncs, lowerFuncs, inputA, inputB, sliderAngle)} :
            view.volumeText = measured.volumeText /\ view.areaText = measured.areaText

\* C18: an update depends on the inputs alone and not on the updates that
\* ran before it: the mesh and the measurements on the page are those of an
\* update with the same lists and controls on the page as loaded.
C18_UpdateIsHistoryFree ==
    ready =>
        \A fresh \in {apply("updateSolid",
                            <<markup, upperFuncs, lowerFuncs, inputA, inputB, sliderAngle,
                              renderMode, sliderDiskCount, wireframeChecked>>)} :
            /\ view.solidMesh = fresh.solidMesh
            /\ view.volumeText = fresh.volumeText
            /\ view.areaText = fresh.areaText

\* The number of times an object occurs in a list of objects, and the
\* number of objects of a kind in it.
occurrences(objects, object) == Cardinality({k \in 1..Len(objects) : objects[k] = object})
ofKind(objects, material) == Cardinality({k \in 1..Len(objects) : objects[k][1] = material})

\* C27: the scene holds exactly the objects that solidMesh, wireframeMesh,
\* boundCircleA, boundCircleB and profileLines refer to, each once: at most
\* one solid, one overlay and one line per bound, nothing of an earlier
\* update; and it holds none of them when the last update built no geometry.
C27_SceneBookkeeping ==
    \A objects \in {referenced(view)} :
        /\ Len(view.scene) = Len(objects)
        /\ \A k \in 1..Len(objects) :
               occurrences(view.scene, objects[k]) = occurrences(objects, objects[k])
        /\ ofKind(view.scene, "MeshStandardMaterial") <= 1
        /\ ofKind(view.scene, "MeshBasicMaterial") <= 1
        /\ ofKind(view.scene, "LineDashedMaterial") <= 2
        /\ view.solidMesh = null => view.scene = <<>>

\* C27 happens: an update has replaced a solid that had an overlay, and the
\* scene holds the new solid with its overlay, profile lines and bound lines.
C27_Witness ==
    /\ ready /\ events >= 2
    /\ view.solidMesh # null /\ view.wireframeMesh # null
    /\ Len(view.scene) >= 4

\* C28: each group holds at least one piece, whatever pieces were added and
\* removed and whatever link the page was opened with.
C28_GroupsNonEmpty ==
    Len(upperFuncs) >= 1 /\ Len(lowerFuncs) >= 1

\* C29: once the page is started, with or without a shared link, the
\* wireframe overlay exists exactly when the wireframe checkbox is checked
\* and a solid exists: every change of the checkbox is followed by an update.
C29_WireframeFollowsCheckbox ==
    ready => (view.wireframeMesh # null <=>
                  (wireframeChecked /\ view.solidMesh # null))

(***************************************************************************)
(* Properties of the functions.                                            *)
(***************************************************************************)
\* The function fn was called and has returned.
Returned(fn) == call # <<>> /\ call[1].fn = fn /\ result # <<>>

\* The value of one formula at x.
valueOf(expr, x) == apply("safeEval", <<apply("preprocessInput", <<expr>>), x>>)

\* The finite values at x of the pieces of a list whose inclusive domain
\* holds x (a missing end of the domain is unbounded).
activeFinite(funcsList, x) ==
    { v \in { valueOf(funcsList[k].expr, x) :
                k \in { j \in 1..Len(funcsList) :
                          /\ Le(IF funcsList[j].rangeStart = <<>> THEN NegInf
                                ELSE valueOf(funcsList[j].rangeStart, 0), x)
                          /\ Le(x, IF funcsList[j].rangeEnd = <<>> THEN PosInf
                                   ELSE valueOf(funcsList[j].rangeEnd, 0)) } } :
        isFinite(v) }

\* 0 where no piece is active or none is finite, else the greatest value.
envelopeAt(funcsList, x) ==
    LET S == activeFinite(funcsList, x)
    IN  IF S = {} THEN 0 ELSE CHOOSE m \in S : \A v \in S : v <= m

crossAxisRule(upper, lower) ==
    IF (upper < 0 /\ lower > 0) \/ (upper > 0 /\ lower < 0)
    THEN [rOuter |-> Max2(Abs(upper), Abs(lower)), rInner |-> 0]
    ELSE [rOuter |-> Max2(Abs(upper), Abs(lower)), rInner |-> Min2(Abs(upper), Abs(lower))]

\* C3: the lathe path, the disk path and the quadrature path each return the
\* radii of the cross-axis rule for a pair of finite values (hence the same
\* radii for the same pair).
C3_CrossAxisRule ==
    (Returned("latheRadii") \/ Returned("diskRadii") \/ Returned("measureRadii")) =>
        result[1] = crossAxisRule(call[1].upper, call[1].lower)

\* C3 happens: the disk path on 2 and -0.5 returns the disk of radius 2.
C3_Witness ==
    /\ Returned("diskRadii")
    /\ call[1].upper = 2 * SCALE /\ call[1].lower = -500000
    /\ result[1] = [rOuter |-> 2 * SCALE, rInner |-> 0]

\* The measurements whose two sums are known exactly: constant boundaries,
\* where SUM (rOuter^2 - rInner^2) dx = (rOuter^2 - rInner^2)(b - a) and
\* SUM |uAvg - lAvg| dx = |u - l|(b - a), and the step from 2 to 0 at x = 1 on
\* [0,2], where the sub-interval after x = 1 has uAvg = 1 and dx = 2/1000.
ExactSums ==
    { [upper |-> <<Piece(<<"2">>, <<>>, <<>>)>>, lower |-> <<Piece(<<"0">>, <<>>, <<>>)>>,
       a |-> 0, b |-> 3 * SCALE, volume |-> 12 * SCALE, area2D |-> 6 * SCALE],
      [upper |-> <<Piece(<<"2">>, <<>>, <<>>)>>, lower |-> <<Piece(<<"-", "1">>, <<>>, <<>>)>>,
       a |-> 0, b |-> 3 * SCALE, volume |-> 12 * SCALE, area2D |-> 9 * SCALE],
      [upper |-> <<Piece(<<"2">>, <<>>, <<>>)>>, lower |-> <<Piece(<<"1">>, <<>>, <<>>)>>,
       a |-> SCALE, b |-> 2 * SCALE, volume |-> 3 * SCALE, area2D |-> SCALE],
      [upper |-> <<Piece(<<"2">>, <<"0">>, <<"1">>)>>, lower |-> <<Piece(<<"0">>, <<>>, <<>>)>>,
       a |-> 0, b |-> 2 * SCALE, volume |-> 4002000, area2D |-> 2002000] }

\* C4: updateMeasurements returns volume = |pi * SUM * (angleDeg/360)| and
\* area2D = SUM |uAvg - lAvg| dx over the 1000 sub-intervals of [a,b], with the
\* radii of the cross-axis rule: the area does not depend on the angle, and
\* the volume is proportional to it and 0 at angle 0.
C4_QuadratureSums ==
    Returned("updateMeasurements") =>
        \A e \in ExactSums :
            (/\ call[1].upper = e.upper /\ call[1].lower = e.lower
             /\ call[1].a = e.a /\ call[1].b = e.b) =>
                /\ result[1].area2D = e.area2D
                /\ result[1].volume =
                       Abs(Mul(Mul(PI, e.volume), Div(Num(call[1].angleDeg), Num(360))))
                /\ (call[1].angleDeg = 0 => result[1].volume = 0)

\* C4 happens: boundaries 2 and -1 on [0,3] at 180 degrees measure half the
\* disk of radius 2, and the area between them.
C4_Witness ==
    /\ Returned("updateMeasurements")
    /\ call[1].upper = <<Piece(<<"2">>, <<>>, <<>>)>>
    /\ call[1].lower = <<Piece(<<"-", "1">>, <<>>, <<>>)>>
    /\ call[1].angleDeg = 180
    /\ result[1].volume = Mul(Mul(PI, 12 * SCALE), 500000)
    /\ result[1].area2D = 9 * SCALE

\* C5: on f = 2, g = 0, [0,3], 180 degrees the volume is pi*4*3*0.5 exactly;
\* on f = x, g = 0, [0,2], 360 degrees the volume shown is pi*8/3 and the
\* area shown is 2.0, to two decimals.
C5_ReferenceCases ==
    Returned("updateMeasurements") =>
        /\ (/\ call[1].upper = <<Piece(<<"2">>, <<>>, <<>>)>>
            /\ call[1].lower = <<Piece(<<"0">>, <<>>, <<>>)>>
            /\ call[1].a = 0 /\ call[1].b = 3 * SCALE /\ call[1].angleDeg = 180)
              => result[1].volume = Mul(Mul(Mul(PI, 4 * SCALE), 3 * SCALE), 500000)
        /\ (/\ call[1].upper = <<Piece(<<"x">>, <<>>, <<>>)>>
            /\ call[1].lower = <<Piece(<<"0">>, <<>>, <<>>)>>
            /\ call[1].a = 0 /\ call[1].b = 2 * SCALE /\ call[1].angleDeg = 360)
              => /\ result[1].volumeText = toFixed2(Div(Mul(PI, 8 * SCALE), 3 * SCALE))
                 /\ result[1].areaText = toFixed2(2 * SCALE)

\* C5 happens: f = x on [0,2] at 360 degrees shows 8.38 and 2.00.
C5_Witness ==
    /\ Returned("updateMeasurements")
    /\ call[1].upper = <<Piece(<<"x">>, <<>>, <<>>)>>
    /\ call[1].angleDeg = 360
    /\ result[1].volumeText = 838
    /\ result[1].areaText = 200

\* C7: a formula that uses anything outside the whitelist (another
\* identifier, a property, an assignment) evaluates to not-a-number.
C7_ForeignFormulaIsNaN ==
    (Returned("safeEval") /\ call[1].expr \in ForeignFormulas) => result[1] = NaN

\* C8: every whitelisted identifier evaluates as its host operation: arcsin,
\* arccos and arctan as asin, acos and atan, ln as the natural logarithm and
\* log as the base-10 logarithm.
C8_IdentifierIsHostOperation ==
    Returned("safeEval") =>
        \A pair \in IdentifierFormulas :
            call[1].expr = pair[1] => result[1] = apply(pair[2], <<call[1].x>>)

\* C9: logN(v) evaluates to ln(v)/ln(N) whatever precedes it, a digit
\* coefficient included, and log(v) to the base-10 logarithm (up to the
\* rounding of the last digit).
C9_LogBase ==
    Returned("safeEval") =>
        \A pair \in LogFormulas :
            call[1].expr = pair[1] =>
                isFinite(result[1]) /\ Abs(result[1] - pair[2]) <= 2

\* C10: a formula with an implicit multiplication evaluates as the formula
\* with the '*' written, at every x.
C10_ImplicitStar ==
    Returned("safeEval") =>
        \A pair \in StarFormulas :
            call[1].expr = pair[1] => result[1] = valueOf(pair[2], call[1].x)

\* C11: safeEval returns a number for every formula and every x, and
\* not-a-number when the formula is malformed, names an undefined
\* identifier, yields something that is not a number or leaves the domain
\* of a function: no exception and no other value reaches the caller.
C11_SafeEvalReturnsNumber ==
    Returned("safeEval") =>
        /\ IsNumber(result[1])
        /\ call[1].expr \in FailingFormulas => result[1] = NaN

\* C11 happens: the malformed formula '2+' has returned not-a-number.
C11_Witness ==
    Returned("safeEval") /\ call[1].expr = <<"2", "+">> /\ result[1] = NaN

\* C12: after the normalisation of the bounds a < b strictly, for every
\* pair of bound texts.
C12_BoundsOrdered ==
    Returned("readBounds") => Lt(result[1].a, result[1].b)

\* The call with the two bound texts exchanged.
swapped(c) == [c EXCEPT !.inputA = c.inputB, !.inputB = c.inputA]

\* C13: the bounds p, q give the same interval as the bounds q, p, and an
\* update with them the same page: the same sites, mesh, profile lines,
\* volume and area.
C13_SwappedBounds ==
    /\ Returned("readBounds") =>
           result[1] = apply("readBounds", <<call[1].inputB, call[1].inputA>>)
    /\ Returned("updateSolid") => result[1] = updateOf(swapped(call[1]))

\* C13 happens: the bounds 5 and 1 have been read as the interval [1,5].
C13_Witness ==
    /\ Returned("readBounds")
    /\ call[1].inputA = <<"5">> /\ call[1].inputB = <<"1">>
    /\ result[1] = [a |-> SCALE, b |-> 5 * SCALE]

\* The bound texts that are empty, blank or no number, and the text read
\* in place of each.
BadBoundTexts == { <<>>, <<" ">>, <<"y">> }
orZeroText(text) == IF text \in BadBoundTexts THEN <<"0">> ELSE text

\* C14: a bound that is empty, blank or no number is read as 0; two such
\* bounds give the interval [0, 0.01], and the update with them shows no
\* error and draws the solid.
C14_BoundFallback ==
    /\ Returned("readBounds") =>
           /\ result[1] = apply("readBounds", <<orZeroText(call[1].inputA),
                                                orZeroText(call[1].inputB)>>)
           /\ (call[1].inputA \in BadBoundTexts /\ call[1].inputB \in BadBoundTexts)
                 => result[1] = [a |-> 0, b |-> 10000]
    /\ (Returned("updateSolid") /\ call[1].inputA \in BadBoundTexts
                                /\ call[1].inputB \in BadBoundTexts)
           => /\ ~result[1].errorShown
              /\ result[1].solidMesh # null
              /\ result[1] = updateOf([call[1] EXCEPT !.inputA = <<"0">>, !.inputB = <<"0">>])

\* C14 happens: a blank bound and the bound 'y' have been read as [0, 0.01].
C14_Witness ==
    /\ Returned("readBounds")
    /\ call[1].inputA = <<" ">> /\ call[1].inputB = <<"y">>
    /\ result[1] = [a |-> 0, b |-> 10000]

\* A piece whose domain is invalid: a bound that is not a number, or the
\* start after the end.
invalidDomain(f) ==
    LET start == IF f.rangeStart = <<>> THEN NegInf ELSE valueOf(f.rangeStart, 0)
        end == IF f.rangeEnd = <<>> THEN PosInf ELSE valueOf(f.rangeEnd, 0)
    IN  start = NaN \/ end = NaN \/ start > end

\* The pieces of a list whose domain is valid.
validPieces(funcsList) == SelectSeq(funcsList, LAMBDA f : ~invalidDomain(f))

\* C15: a piece of invalid domain contributes to no envelope value, for any
\* caller, and an update with such pieces shows no error and leaves the page
\* of the update without them (no profile line of theirs).
C15_InvalidDomainInactive ==
    /\ (Returned("evaluatePiecewise") \/ Returned("evalSet")) =>
           \A k \in 1..Len(call[1].xValues) :
               result[1][k] = envelopeAt(validPieces(call[1].funcsList), call[1].xValues[k])
    /\ (Returned("updateSolid") /\ validPieces(call[1].upper) # call[1].upper) =>
           /\ ~result[1].errorShown
           /\ Len(result[1].profileLines)
                  = Len(validPieces(call[1].upper)) + Len(validPieces(call[1].lower))
           /\ result[1] = updateOf([call[1] EXCEPT !.upper = validPieces(call[1].upper)])

\* C15 happens: the piece 5 on [2,1] beside x+1 has left the envelope x+1 at
\* x = 2.
C15_Witness ==
    /\ Returned("evaluatePiecewise")
    /\ call[1].funcsList = <<Piece(<<"x", "+", "1">>, <<>>, <<>>), Piece(<<"5">>, <<"2">>, <<"1">>)>>
    /\ result[1][4] = 3 * SCALE

\* The lists with the pieces of a list in every order.
Orders(list) ==
    { [k \in 1..Len(list) |-> list[p[k]]] :
        p \in { q \in [1..Len(list) -> 1..Len(list)] :
                  \A i, j \in 1..Len(list) : q[i] = q[j] => i = j } }

\* C16: the envelope of a list is the envelope of every permutation of it,
\* at every site and for every caller, and so are the measurements.
C16_OrderIndependent ==
    /\ (Returned("evaluatePiecewise") \/ Returned("evalSet")) =>
           \A list \in Orders(call[1].funcsList) :
               result[1] = sampled(call[1].caller, call[1].group, list, call[1].xValues)
    /\ (Returned("updateMeasurements") /\ Len(call[1].upper) > 1) =>
           \A list \in Orders(call[1].upper) :
               result[1] = apply("updateMeasurements",
                                 <<list, call[1].lower, call[1].a, call[1].b,
                                   call[1].angleDeg>>)

\* C16 happens: the envelope of x, 1 and 2 - x has been sampled.
C16_Witness ==
    /\ Returned("evaluatePiecewise")
    /\ Len(call[1].funcsList) = 3
    /\ result[1] = << 2 * SCALE, 1500000, SCALE, 2 * SCALE >>

\* C17: an empty or blank formula is rewritten to '0' and evaluates to 0 at
\* every x.
C17_BlankIsZero ==
    /\ (Returned("preprocessInput") /\ call[1].expr \in BlankFormulas) => result[1] = <<"0">>
    /\ (Returned("safeEval") /\ call[1].expr \in BlankFormulas) => result[1] = 0

\* C17 happens: a formula of one space has been rewritten to '0'.
C17_Witness ==
    Returned("preprocessInput") /\ call[1].expr = <<" ">> /\ result[1] = <<"0">>

\* C19: createDisks cuts [a,b] into n slabs of width dx = (b-a)/n: slab i
\* has the radii of the cross-axis rule at the midpoint a + dx*(i+0.5),
\* starts at a + i*dx and is dx deep (slabs with rOuter < 0.001 are left out).
C19_SlabsSpanSubIntervals ==
    (Returned("createDisks") /\ result[1] # null) =>
        LET c == call[1]
            dx == (c.b - c.a) \div c.n
            radii(i) == crossAxisRule(envelopeAt(c.upper, c.a + ((2 * i + 1) * dx) \div 2),
                                      envelopeAt(c.lower, c.a + ((2 * i + 1) * dx) \div 2))
            kept == SelectSeq([k \in 1..c.n |-> k - 1], LAMBDA i : radii(i).rOuter >= 1000)
        IN  /\ Len(result[1].slabs) = Len(kept)
            /\ \A k \in 1..Len(kept) :
                  /\ result[1].slabs[k].x = c.a + kept[k] * dx
                  /\ result[1].slabs[k].depth = dx
                  /\ result[1].slabs[k].rOuter = radii(kept[k]).rOuter
                  /\ result[1].slabs[k].rInner = radii(kept[k]).rInner

\* The three positions of a triangle of a surface are distinct.
properTriangle(xValues, radiusArray, angleRad, triangle) ==
    LET p(k) == surfacePosition(xValues, radiusArray, angleRad, 0, triangle[k])
    IN  p(1) # p(2) /\ p(2) # p(3) /\ p(1) # p(3)

\* The triangles of the surface of a radius array that touch a site where
\* the radius is 0 are all proper.
properAtZero(xValues, radiusArray, angleRad, flipNormals) ==
    \A i \in 0..(resolution - 1) :
        (radiusArray[i + 1] = 0 \/ radiusArray[i + 2] = 0) =>
            \A j \in 0..(segments - 1) :
                \A t \in 1..2 :
                    properTriangle(xValues, radiusArray, angleRad,
                                   surfaceTriangles(0, i, j, flipNormals)[t])

\* C20: createDisks emits no slab with rOuter < 0.001, and the lathe emits
\* no triangle with two coincident vertices at the sites where the outer or
\* the inner radius is 0.
C20_NoDegenerateGeometry ==
    /\ (Returned("createDisks") /\ result[1] # null) =>
           \A k \in 1..Len(result[1].slabs) : result[1].slabs[k].rOuter >= 1000
    /\ (Returned("updateSolid") /\ result[1].solidMesh # null
                                /\ result[1].solidMesh.kind = "lathe") =>
           LET bounds == apply("readBounds", <<call[1].inputA, call[1].inputB>>)
               xValues == apply("displaySites", <<bounds.a, bounds.b, 0, resolution>>)
               angleRad == (call[1].sliderAngle * PI + 90) \div 180
               radii == result[1].solidMesh.radii
           IN  /\ properAtZero(xValues, [k \in 1..Len(radii) |-> radii[k].rOuter],
                               angleRad, FALSE)
               /\ properAtZero(xValues, [k \in 1..Len(radii) |-> radii[k].rInner],
                               angleRad, TRUE)

\* Vectors of three numbers: difference, cross product, and the normal of
\* the face of a triangle by the right-hand rule over its vertex order, as
\* computeVertexNormals takes it: (C - B) x (A - B).
minus3(p, q) == << (p[1] \ominus q[1]), (p[2] \ominus q[2]), (p[3] \ominus q[3]) >>
cross3(u, v) ==
    << ((u[2] \otimes v[3]) \ominus (u[3] \otimes v[2])),
       ((u[3] \otimes v[1]) \ominus (u[1] \otimes v[3])),
       ((u[1] \otimes v[2]) \ominus (u[2] \otimes v[1])) >>
faceNormal(triangle) ==
    cross3(minus3(triangle[3], triangle[2]), minus3(triangle[1], triangle[2]))

\* The component of the normal of a triangle along the direction from the
\* rotation axis to the triangle (the y and z of the sum of its vertices).
radialPart(triangle) ==
    LET n == faceNormal(triangle)
        cy == ((triangle[1][2] \oplus triangle[2][2]) \oplus triangle[3][2])
        cz == ((triangle[1][3] \oplus triangle[2][3]) \oplus triangle[3][3])
    IN  ((n[2] \otimes cy) \oplus (n[3] \otimes cz))

\* C21: the triangles of a cell of the inner surface have the vertices of
\* those of the outer surface in the opposite order, and the face normals
\* point out of the solid: away from the axis on the outer surface, toward
\* the axis on the inner one.
C21_NormalsPointOutward ==
    Returned("addSurface") =>
        LET c == call[1]
            other == surfaceCell(c.xValues, c.radiusArray, c.angleRad, 0, c.j,
                                 ~c.flipNormals)
        IN  \A t \in 1..2 :
                /\ result[1][t] = << other[t][1], other[t][3], other[t][2] >>
                /\ IF c.flipNormals THEN Lt(radialPart(result[1][t]), 0)
                   ELSE Gt(radialPart(result[1][t]), 0)

\* The caps of the lathe that an update has built, from its call.
capsOf(c, page) ==
    LET bounds == apply("readBounds", <<c.inputA, c.inputB>>)
    IN  latheCaps(bounds.a, bounds.b, page.solidMesh.radii)

\* C22: every triangle of a cap lies in the plane x = xPos between the outer
\* and the inner ring, and where rOuter > rInner its normal has a negative
\* x-component on the cap that faces -1 (the cap at a) and a positive one on
\* the cap that faces 1 (the cap at b); the caps of an update are those of a
\* and of b with the radii of the first and of the last site.
C22_CapsFaceOutward ==
    /\ Returned("addEndCap") =>
           \A t \in 1..2 :
               /\ \A k \in 1..3 : result[1][t][k][1] = call[1].xPos
               /\ Gt(call[1].rOuter, call[1].rInner) =>
                      IF call[1].facing < 0 THEN Lt(faceNormal(result[1][t])[1], 0)
                      ELSE Gt(faceNormal(result[1][t])[1], 0)
    /\ (Returned("updateSolid") /\ result[1].solidMesh # null
                                /\ result[1].solidMesh.kind = "lathe") =>
           \A caps \in {capsOf(call[1], result[1])} :
               \A e \in 1..2 :
                   Gt(caps[e].rOuter, caps[e].rInner) =>
                       \A t \in 1..2 :
                           \A n \in {faceNormal(capCell(caps[e].xPos, caps[e].rOuter,
                                                        caps[e].rInner, TwoPI, 0,
                                                        caps[e].facing)[t])} :
                               IF e = 1 THEN Lt(n[1], 0) ELSE Gt(n[1], 0)

\* The domain of a piece clipped to [a, b]: its two ends.
clippedStart(f, a) ==
    LET start == IF f.rangeStart = <<>> THEN NegInf ELSE valueOf(f.rangeStart, 0)
    IN  IF isNaN(start) THEN NaN ELSE Max2(start, a)
clippedEnd(f, b) ==
    LET end == IF f.rangeEnd = <<>> THEN PosInf ELSE valueOf(f.rangeEnd, 0)
    IN  IF isNaN(end) THEN NaN ELSE Min2(end, b)

\* The points of a polyline lie on the curve of the piece within
\* [rStart, rEnd], with strictly increasing x.
onCurve(line, f, rStart, rEnd) ==
    /\ \A k \in 1..Len(line.points) :
           /\ Le(rStart, line.points[k].x) /\ Le(line.points[k].x, rEnd)
           /\ line.points[k].y = valueOf(f.expr, line.points[k].x)
    /\ \A k \in 1..(Len(line.points) - 1) : Lt(line.points[k].x, line.points[k + 1].x)

\* The polyline runs from rStart to rEnd.
edgeToEdge(line, rStart, rEnd) ==
    line.points[1].x = rStart /\ line.points[Len(line.points)].x = rEnd

\* C23 as stated: a piece whose clipped domain [rStart, rEnd] has
\* rStart <= rEnd draws one polyline of points (x, f(x)) with strictly
\* increasing x that starts at rStart and ends at rEnd; any other piece
\* draws none.
C23_PolylineEdgeToEdge ==
    Returned("drawFunctionSegment") =>
        LET f == call[1].funcItem
            rStart == clippedStart(f, call[1].a)
            rEnd == clippedEnd(f, call[1].b)
        IN  IF Le(rStart, rEnd)
            THEN /\ Len(result[1]) = 1
                 /\ onCurve(result[1][1], f, rStart, rEnd)
                 /\ edgeToEdge(result[1][1], rStart, rEnd)
            ELSE result[1] = <<>>

\* C23: a piece whose clipped domain [rStart, rEnd] has rStart < rEnd and
\* whose formula is finite at rStart and at rEnd draws one polyline of
\* points (x, f(x)) with strictly increasing x that starts at rStart and
\* ends at rEnd, also when no display site lies on those edges; every
\* polyline drawn lies within [rStart, rEnd] on the curve with strictly
\* increasing x; a piece with an empty clipped domain draws none.
C23_PolylineBetweenFiniteEdges ==
    Returned("drawFunctionSegment") =>
        LET f == call[1].funcItem
            rStart == clippedStart(f, call[1].a)
            rEnd == clippedEnd(f, call[1].b)
        IN  /\ Len(result[1]) <= 1
            /\ \A k \in 1..Len(result[1]) : onCurve(result[1][k], f, rStart, rEnd)
            /\ (Lt(rStart, rEnd) /\ isFinite(valueOf(f.expr, rStart))
                                 /\ isFinite(valueOf(f.expr, rEnd)))
                   => (Len(result[1]) = 1 /\ edgeToEdge(result[1][1], rStart, rEnd))
            /\ ~Le(rStart, rEnd) => result[1] = <<>>

\* C23 happens: the piece x on [1.005, 2] has been drawn over [0, 3], where
\* no display site is 1.005 or 2, from (1.005, 1.005) to (2, 2).
C23_Witness ==
    /\ Returned("drawFunctionSegment")
    /\ call[1].funcItem = Piece(<<"x">>, <<"1", ".", "0", "0", "5">>, <<"2">>) /\ call[1].a = 0
    /\ Len(result[1]) = 1
    /\ result[1][1].points[1] = [x |-> 1005000, y |-> 1005000]
    /\ result[1][1].points[Len(result[1][1].points)] = [x |-> 2 * SCALE, y |-> 2 * SCALE]
    /\ \A k \in 0..resolution : (3 * SCALE * k) \div resolution \notin { 1005000, 2 * SCALE }

\* The envelopes of an update: yOuter and yInner at the display sites of
\* the bounds read.
envelopesOf(c) ==
    LET bounds == apply("readBounds", <<c.inputA, c.inputB>>)
        xValues == apply("displaySites", <<bounds.a, bounds.b, 0, resolution>>)
    IN  [yOuter |-> sampled("updateSolid", "upper", c.upper, xValues),
         yInner |-> sampled("updateSolid", "lower", c.lower, xValues),
         xValues |-> xValues]

\* C24: every value evaluatePiecewise returns is a finite number, for every
\* list of pieces and every site, the sites that are no finite numbers
\* included; so yOuter and yInner of an update hold finite numbers only.
C24_EnvelopeIsFinite ==
    /\ Returned("evaluatePiecewise") =>
           \A k \in 1..Len(result[1]) : isFinite(result[1][k])
    /\ Returned("updateSolid") =>
           \A e \in {envelopesOf(call[1])} :
               /\ ~hasInvalid(e.yOuter, e.yInner)
               /\ ~result[1].errorShown

\* C24 happens: the envelope of x and 1/x has been taken at the sites
\* -Infinity, Infinity, NaN and -1.
C24_Witness ==
    /\ Returned("evaluatePiecewise")
    /\ call[1].funcsList = <<Piece(<<"x">>, <<>>, <<>>), Piece(<<"1", "/", "x">>, <<>>, <<>>)>>
    /\ call[1].xValues = NonFiniteSites
    /\ result[1] = << 0, 0, 0, -1000000 >>

\* The radii of a pair of boundary values are ordered: 0 <= rInner <= rOuter.
orderedRadii(r) == Le(0, r.rInner) /\ Le(r.rInner, r.rOuter)

\* C25: in the lathe, the disks and the quadrature the radii of every pair
\* of finite boundary values satisfy 0 <= rInner <= rOuter, and the volume
\* and the area that updateMeasurements computes, and an update shows, are
\* non-negative numbers for every input.
C25_MeasurementsNonNegative ==
    /\ (Returned("latheRadii") \/ Returned("diskRadii") \/ Returned("measureRadii"))
           => orderedRadii(result[1])
    /\ Returned("updateMeasurements") =>
           (Ge(result[1].volume, 0) /\ Ge(result[1].area2D, 0))
    /\ (Returned("updateSolid") /\ result[1].solidMesh # null) =>
           (Ge(result[1].volumeText, 0) /\ Ge(result[1].areaText, 0))

\* The indices of the triangles of a block lie among the vertices the block
\* has pushed.
ownVertices(block) ==
    \A t \in 1..Len(block.part.indices) :
        \A k \in 1..3 :
            /\ block.part.indices[t][k] >= block.start
            /\ block.part.indices[t][k] < block.start + Len(block.part.positions)

\* C26: for R sites and S steps the position buffer holds
\* 2*(R+1)*(S+1) + 4*(S+1) vertices and the index buffer 4*R*S + 4*S
\* triangles, every index is that of a vertex of the buffer, and the
\* triangles of each of the four blocks index vertices of their own block
\* only; the buffers of an update are those of CONFIG.
C26_BuffersWellFormed ==
    /\ Returned("latheBuffers") =>
           LET R == call[1].xSegments
               S == call[1].thetaSegments
               vertexCount == Len(result[1].positions)
           IN  /\ vertexCount = 2 * (R + 1) * (S + 1) + 4 * (S + 1)
               /\ result[1].vertexCount = vertexCount
               /\ Len(result[1].indices) = 4 * R * S + 4 * S
               /\ \A t \in 1..Len(result[1].indices) :
                      \A k \in 1..3 :
                          result[1].indices[t][k] >= 0 /\ result[1].indices[t][k] < vertexCount
               /\ \A b \in 1..4 : ownVertices(result[1].blocks[b])
    /\ (Returned("updateSolid") /\ result[1].solidMesh # null
                                /\ result[1].solidMesh.kind = "lathe") =>
           \A buffers \in {latheBuffers(resolution, segments)} :
               /\ result[1].solidMesh.positions = 3 * Len(buffers.positions)
               /\ result[1].solidMesh.indices = 3 * Len(buffers.indices)

\* C26 happens: the lathe of CONFIG has been built, with 13390 vertices and
\* 25856 triangles, the last of which ends at the last vertex.
C26_Witness ==
    /\ Returned("latheBuffers")
    /\ call[1].xSegments = resolution /\ call[1].thetaSegments = segments
    /\ Len(result[1].positions) = 13390
    /\ Len(result[1].indices) = 25856
    /\ result[1].indices[25856] = << 13324, 13388, 13389 >>

====
